---- MODULE Spec2Model ----
(***************************************************************************)
(* A model of the alx-project-nexus e-commerce backend: the order ledger,  *)
(* the catalog (categories, products, product images), the review ledger   *)
(* and the wishlist index, together with the permission classes that guard *)
(* their HTTP handlers.  Each action is one HTTP handler (or one admin     *)
(* save) run to completion against the relational store.                   *)
(***************************************************************************)
EXTENDS Integers, Sequences, FiniteSets, TLC

VARIABLES
    is_admin,          \* User.is_admin, per user
    has_shipping_address,  \* User.has_shipping_address, per user
    shipping_addresses,    \* the users that have a ShippingAddress row
    now,               \* the wall clock read by timezone.now()
    orders,            \* Order rows: id -> record
    next_order_id,     \* the Order table's autoincrement counter
    categories,        \* Category rows: id -> record
    next_category_id,
    products,          \* Product rows: id -> record
    next_product_id,
    images,            \* ProductImage rows: id -> record
    next_image_id,
    reviews,           \* Review rows: id -> record
    next_review_id,
    wishlists,         \* Wishlist rows: id -> record
    next_wishlist_id,
    response,          \* the last HTTP response: [op, status, at, error]
    inflight           \* the requests under way: worker -> what it has read and done

vars == <<is_admin, has_shipping_address, shipping_addresses, now, orders, next_order_id, categories, next_category_id,
          products, next_product_id, images, next_image_id, reviews,
          next_review_id, wishlists, next_wishlist_id, response, inflight>>

userVars == <<is_admin, has_shipping_address, shipping_addresses>>
orderVars == <<orders, next_order_id>>
catalogVars == <<categories, next_category_id, products, next_product_id>>
imageVars == <<images, next_image_id>>
reviewVars == <<reviews, next_review_id>>
wishlistVars == <<wishlists, next_wishlist_id>>

----------------------------------------------------------------------------
(* Bounds of the model *)

MaxClock == 2          \* the clock runs from 1 to MaxClock
MaxOrders == 1         \* Order rows ever inserted while one order's life is followed
MaxLedger == 2         \* Order rows ever inserted while order numbers are drawn
MaxCategories == 1     \* Category rows ever inserted
MaxProducts == 1       \* Product rows ever inserted while the catalog is edited
MaxShelf == 2          \* Product rows ever inserted while images, reviews and
                       \* wishlists are followed
MaxImages == 3         \* ProductImage rows ever inserted
MaxReviews == 3        \* Review rows ever inserted
MaxWishlists == 3      \* Wishlist rows ever inserted
MaxQty == 2            \* largest stock figure a request carries
MaxFiles == 2          \* files in one multipart request

----------------------------------------------------------------------------
(* Principals *)

Anonymous == "anon"
Users == {"alice", "bob", "root"}
Principals == Users \cup {Anonymous}

\* request.user.is_authenticated
is_authenticated(u) == u \in Users

\* a nullable column holding no value
NULL == 0

Times == 1..MaxClock

EmptyTable == [i \in {} |-> NULL]

\* the table with row id removed (Model.delete)
DeleteRow(table, id) == [i \in DOMAIN table \ {id} |-> table[i]]

\* the table with a row stored under id (Model.save of a new or existing row)
PutRow(table, id, row) ==
    [i \in DOMAIN table \cup {id} |-> IF i = id THEN row ELSE table[i]]

\* an HTTP response: the handler that answered, its status code, the time
\* it was sent and, for the errors told apart below, the 'error' text
\* the server's workers, each serving one request at a time, and the state
\* of a worker that serves none
Workers == {1, 2}
Idle == [pc |-> "idle"]

RespondError(op, status, error) ==
    [op |-> op, status |-> status, at |-> now, error |-> error]

Respond(op, status) == RespondError(op, status, "")

----------------------------------------------------------------------------
(* users/permissions.py, users/decorators.py *)

\* IsAdminUser without the is_admin test
IsAdminUser_any_authenticated(u) == is_authenticated(u)

IsAdminUser_has_permission(u) == is_authenticated(u) /\ is_admin[u]

IsOwnerOrAdmin_has_permission(u) == is_authenticated(u)

\* IsOwnerOrAdmin letting every authenticated user at every object
IsOwnerOrAdmin_any_object(u, obj) == TRUE

\* a User instance as the object of a request: it has no attribute `user`
UserObject(u) == [email |-> u]

\* IsOwnerOrAdmin without the admin branch
IsOwnerOrAdmin_owner_only(u, obj) == "user" \in DOMAIN obj /\ obj.user = u

\* obj is a row with a user column (hasattr(obj, 'user')) or a User instance
IsOwnerOrAdmin_has_object_permission(u, obj) ==
    IF is_admin[u] THEN TRUE
    ELSE IF "user" \in DOMAIN obj THEN obj.user = u
    ELSE IF obj = UserObject(u) THEN TRUE
    ELSE FALSE

SAFE_METHODS == {"GET", "HEAD", "OPTIONS"}

IsAdminOrReadOnly_has_permission(u, method) ==
    IF method \in SAFE_METHODS THEN is_authenticated(u)
    ELSE is_authenticated(u) /\ is_admin[u]

is_logged_in(u) == is_authenticated(u)

\* the status of a request refused by has_permission: 401 for a request
\* carrying no credentials, 403 for an authenticated principal
Denied(u) == IF is_authenticated(u) THEN 403 ELSE 401

----------------------------------------------------------------------------
(* orders/models.py *)

STATUS_CHOICES == {"pending", "processing", "shipped", "delivered"}

\* a sample of the strings generate_order_number can return (7 random
\* uppercase alphanumerics followed by a number in 10000..99999)
OrderNumberSamples == {"A1B2C3D10000", "Z9Y8X7W99999", "QQQQQQQ55555"}

\* one draw of the generator: any value of its range
generate_order_number == OrderNumberSamples

\* Order.save without the stamping of delivered_at
Order_save_unstamped(order, t) == order

\* Order.save without the "and not self.delivered_at" test
Order_save_restamp(order, t) ==
    IF order.status = "delivered"
    THEN [order EXCEPT !.delivered_at = t]
    ELSE order

\* Order.save: stamp delivered_at when the row is delivered and unstamped,
\* then write the row
Order_save(order, t) ==
    IF order.status = "delivered" /\ order.delivered_at = NULL
    THEN [order EXCEPT !.delivered_at = t]
    ELSE order

\* the column defaults of a new Order
NewOrder(u, items, address, price, number) ==
    [user |-> u, order_items |-> items, shipping_address |-> address,
     order_number |-> number, payment_status |-> "Not paid",
     total_price |-> price, status |-> "pending", delivered_at |-> NULL]

\* order_number without unique=True
OrderNumberNeverTaken(number) == FALSE

\* unique=True on order_number: the insert raises IntegrityError when
\* another row holds the number
OrderNumberTaken(number) ==
    \E i \in DOMAIN orders : orders[i].order_number = number

\* Order.is_paid
is_paid(order) == order.payment_status \in {"paid", "Paid", "PAID"}

RECURSIVE SumQuantities(_)
SumQuantities(items) ==
    IF items = <<>> THEN 0
    ELSE Head(items).quantity + SumQuantities(Tail(items))

\* Order.total_items
total_items(order) == SumQuantities(order.order_items)

----------------------------------------------------------------------------
(* orders/serializers.py *)

\* OrderCreateSerializer.validate_order_items
validate_order_items(value) == value # <<>>

\* OrderCreateSerializer.validate_total_price
validate_total_price(value) == value > 0

OrderUpdateFields == {"payment_status", "status", "delivered_at"}

\* the request bodies of an order update: the fields present (keys) and
\* their values; a field that is absent carries a fixed filler
StatusInputs == STATUS_CHOICES \cup {"cancelled"}
PaymentInputs == {"Not paid", "paid"}
DeliveredInputs == {NULL} \cup Times

OrderUpdatePayloads ==
    {p \in [keys : SUBSET OrderUpdateFields, status : StatusInputs,
            payment_status : PaymentInputs, delivered_at : DeliveredInputs] :
        /\ "status" \notin p.keys => p.status = "pending"
        /\ "payment_status" \notin p.keys => p.payment_status = "Not paid"
        /\ "delivered_at" \notin p.keys => p.delivered_at = NULL}

\* a status field that is free text
OrderUpdateSerializer_any_status(p) == TRUE

\* OrderUpdateSerializer.is_valid: status is a ChoiceField over
\* STATUS_CHOICES; payment_status is free text; delivered_at is nullable
OrderUpdateSerializer_is_valid(p) ==
    "status" \in p.keys => p.status \in STATUS_CHOICES

\* an update that writes null into delivered_at when the body leaves it out
OrderUpdateSerializer_setattr_clearing(order, p) ==
    LET a == IF "payment_status" \in p.keys
             THEN [order EXCEPT !.payment_status = p.payment_status] ELSE order
        b == IF "status" \in p.keys THEN [a EXCEPT !.status = p.status] ELSE a
    IN IF "delivered_at" \in p.keys
       THEN [b EXCEPT !.delivered_at = p.delivered_at]
       ELSE [b EXCEPT !.delivered_at = NULL]

\* ModelSerializer.update, first half: set every field the body carries
OrderUpdateSerializer_setattr(order, p) ==
    LET a == IF "payment_status" \in p.keys
             THEN [order EXCEPT !.payment_status = p.payment_status] ELSE order
        b == IF "status" \in p.keys THEN [a EXCEPT !.status = p.status] ELSE a
    IN IF "delivered_at" \in p.keys
       THEN [b EXCEPT !.delivered_at = p.delivered_at] ELSE b

\* an update that also resets the price of the order
OrderUpdateSerializer_update_repricing(order, p, t) ==
    Order_save([OrderUpdateSerializer_setattr(order, p) EXCEPT !.total_price = 0], t)

\* ModelSerializer.update: set the fields, then instance.save()
OrderUpdateSerializer_update(order, p, t) ==
    Order_save(OrderUpdateSerializer_setattr(order, p), t)

----------------------------------------------------------------------------
(* orders/views.py *)

\* every order, whoever asks
OrdersOf_everyone(u) == DOMAIN orders

\* get_queryset of OrderListCreateView and OrderDetailView
OrdersOf(u) ==
    IF ~is_authenticated(u) THEN {}
    ELSE {i \in DOMAIN orders : orders[i].user = u}

OrderCreateFields == {"order_items", "shipping_address", "total_price"}

\* Order.total_price has default=0.00
total_price_default == 0

\* OrderCreateSerializer.is_valid: the JSON columns have no default, so the
\* body must carry them; total_price has a model default, so the field is
\* optional and validate_total_price runs only on a value that was sent
OrderCreateSerializer_is_valid(body) ==
    /\ "order_items" \in body.keys /\ validate_order_items(body.order_items)
    /\ "shipping_address" \in body.keys
    /\ "total_price" \in body.keys => validate_total_price(body.total_price)

\* POST orders/ with a body that may leave fields out; number is the value
\* generate_order_number draws for the new row
OrderListCreateView_create(u, body, number) ==
    /\ UNCHANGED <<userVars, now, inflight, catalogVars, imageVars, reviewVars, wishlistVars>>
    /\ IF ~IsOwnerOrAdmin_has_permission(u)
       THEN /\ response' = Respond("order_create", Denied(u))
            /\ UNCHANGED orderVars
       ELSE IF ~OrderCreateSerializer_is_valid(body)
       THEN /\ response' = Respond("order_create", 400)
            /\ UNCHANGED orderVars
       ELSE IF OrderNumberTaken(number)
       THEN \* IntegrityError, not caught by the view
            /\ response' = Respond("order_create", 500)
            /\ UNCHANGED orderVars
       ELSE /\ orders' = PutRow(orders, next_order_id,
                                Order_save(NewOrder(u, body.order_items,
                                                    body.shipping_address,
                                                    IF "total_price" \in body.keys
                                                    THEN body.total_price
                                                    ELSE total_price_default,
                                                    number), now))
            /\ next_order_id' = next_order_id + 1
            /\ response' = Respond("order_create", 201)

\* POST orders/ with a body that carries every field
OrderListCreateView_post(u, items, address, price, number) ==
    OrderListCreateView_create(u, [keys |-> OrderCreateFields, order_items |-> items,
                                   shipping_address |-> address,
                                   total_price |-> price], number)

\* PUT/PATCH orders/<pk>/  (every field of OrderUpdateSerializer is
\* optional, so PUT and PATCH validate and update alike)
OrderDetailView_update(u, id, p) ==
    /\ UNCHANGED <<userVars, now, inflight, next_order_id, catalogVars, imageVars,
                   reviewVars, wishlistVars>>
    /\ IF ~IsOwnerOrAdmin_has_permission(u)
       THEN /\ response' = Respond("order_update", Denied(u))
            /\ UNCHANGED orders
       ELSE IF id \notin OrdersOf(u)
       THEN /\ response' = Respond("order_update", 404)
            /\ UNCHANGED orders
       ELSE IF ~IsOwnerOrAdmin_has_object_permission(u, orders[id])
       THEN /\ response' = Respond("order_update", 403)
            /\ UNCHANGED orders
       ELSE IF ~OrderUpdateSerializer_is_valid(p)
       THEN /\ response' = Respond("order_update", 400)
            /\ UNCHANGED orders
       ELSE /\ orders' = PutRow(orders, id, OrderUpdateSerializer_update(orders[id], p, now))
            /\ response' = Respond("order_update", 200)

\* DELETE orders/<pk>/
OrderDetailView_delete(u, id) ==
    /\ UNCHANGED <<userVars, now, inflight, next_order_id, catalogVars, imageVars,
                   reviewVars, wishlistVars>>
    /\ IF ~IsOwnerOrAdmin_has_permission(u)
       THEN /\ response' = Respond("order_delete", Denied(u))
            /\ UNCHANGED orders
       ELSE IF id \notin OrdersOf(u)
       THEN /\ response' = Respond("order_delete", 404)
            /\ UNCHANGED orders
       ELSE IF ~IsOwnerOrAdmin_has_object_permission(u, orders[id])
       THEN /\ response' = Respond("order_delete", 403)
            /\ UNCHANGED orders
       ELSE /\ orders' = DeleteRow(orders, id)
            /\ response' = Respond("order_delete", 204)

\* PUT/PATCH admin/orders/<pk>/
AdminOrderUpdateView_update(u, id, p) ==
    /\ UNCHANGED <<userVars, now, inflight, next_order_id, catalogVars, imageVars,
                   reviewVars, wishlistVars>>
    /\ IF ~IsAdminUser_has_permission(u)
       THEN /\ response' = Respond("admin_order_update", Denied(u))
            /\ UNCHANGED orders
       ELSE IF id \notin DOMAIN orders
       THEN /\ response' = Respond("admin_order_update", 404)
            /\ UNCHANGED orders
       ELSE IF ~OrderUpdateSerializer_is_valid(p)
       THEN /\ response' = Respond("admin_order_update", 400)
            /\ UNCHANGED orders
       ELSE /\ orders' = PutRow(orders, id, OrderUpdateSerializer_update(orders[id], p, now))
            /\ response' = Respond("admin_order_update", 200)

\* cancel_order without the status test
cancel_order_any_status(u, id) ==
    /\ UNCHANGED <<userVars, now, inflight, next_order_id, catalogVars, imageVars,
                   reviewVars, wishlistVars>>
    /\ IF ~is_logged_in(u)
       THEN /\ response' = Respond("cancel_order", 401)
            /\ UNCHANGED orders
       ELSE IF ~(id \in DOMAIN orders /\ orders[id].user = u)
       THEN /\ response' = Respond("cancel_order", 404)
            /\ UNCHANGED orders
       ELSE /\ orders' = PutRow(orders, id,
                                Order_save([orders[id] EXCEPT !.status = "cancelled"], now))
            /\ response' = Respond("cancel_order", 200)

\* PATCH orders/<order_id>/cancel/
cancel_order(u, id) ==
    /\ UNCHANGED <<userVars, now, inflight, next_order_id, catalogVars, imageVars,
                   reviewVars, wishlistVars>>
    /\ IF ~is_logged_in(u)
       THEN /\ response' = Respond("cancel_order", 401)
            /\ UNCHANGED orders
       ELSE IF ~(id \in DOMAIN orders /\ orders[id].user = u)
       THEN /\ response' = Respond("cancel_order", 404)
            /\ UNCHANGED orders
       ELSE IF orders[id].status # "pending"
       THEN /\ response' = Respond("cancel_order", 400)
            /\ UNCHANGED orders
       ELSE /\ orders' = PutRow(orders, id,
                                Order_save([orders[id] EXCEPT !.status = "cancelled"], now))
            /\ response' = Respond("cancel_order", 200)

\* time passes between requests
Tick ==
    /\ now < MaxClock
    /\ now' = now + 1
    /\ UNCHANGED <<userVars, inflight, orderVars, catalogVars, imageVars, reviewVars,
                   wishlistVars, response>>

----------------------------------------------------------------------------
(* products/models.py *)

\* Product.SIZE_CHOICES, the keys
SIZE_CHOICES == {"S", "M", "L", "XL", "XXL"}

\* Product.qty_left
qty_left(product) == product.total_qty - product.total_sold

\* Product.is_in_stock
is_in_stock(product) == qty_left(product) > 0

\* Product.clean: every size is a known one, and total_sold does not exceed
\* total_qty.  Model.save() does not call it; a ModelForm (the admin) does.
Product_clean(product) ==
    /\ \A i \in DOMAIN product.sizes : product.sizes[i] \in SIZE_CHOICES
    /\ ~(product.total_sold > product.total_qty)

\* the rows that go with a set of products: on_delete=CASCADE of
\* ProductImage.product, Review.product and Wishlist.product
RowsOutsideProducts(table, pids) ==
    [i \in {j \in DOMAIN table : table[j].product \notin pids} |-> table[i]]

\* Category names are unique=True
CategoryNameTaken(name, except) ==
    \E i \in DOMAIN categories \ except : categories[i].name = name

----------------------------------------------------------------------------
(* products/serializers.py *)

\* validate_category_id of ProductCreateSerializer and ProductUpdateSerializer
validate_category_id(value) == value \in DOMAIN categories

\* ProductCreateSerializer.validate_sizes
validate_sizes(value) == \A i \in DOMAIN value : value[i] \in SIZE_CHOICES

\* the field validators the model gives both product serializers: price is
\* at least 0.01 (prices are counted in cents here), the two stock counters
\* are PositiveIntegerFields
validate_price(value) == value >= 1
validate_positive_integer(value) == value >= 0

\* ProductCreateSerializer.is_valid; a body is [category_id, sizes, price,
\* total_qty, files], the text fields being present and well formed
ProductCreateSerializer_is_valid(body) ==
    /\ validate_category_id(body.category_id)
    /\ validate_sizes(body.sizes)
    /\ validate_price(body.price)
    /\ validate_positive_integer(body.total_qty)

\* the Product row ProductCreateSerializer.create inserts: total_sold takes
\* its column default
NewProduct(u, body) ==
    [user |-> u, category |-> body.category_id, sizes |-> body.sizes,
     price |-> body.price, total_qty |-> body.total_qty, total_sold |-> 0]

ProductUpdateFields == {"category_id", "sizes", "price", "total_qty", "total_sold"}

\* ProductUpdateSerializer.is_valid; a body is the fields present (keys) and
\* their values.  The serializer has no validate_sizes and no cross-field
\* validate.
ProductUpdateSerializer_is_valid(p) ==
    /\ "category_id" \in p.keys => validate_category_id(p.category_id)
    /\ "price" \in p.keys => validate_price(p.price)
    /\ "total_qty" \in p.keys => validate_positive_integer(p.total_qty)
    /\ "total_sold" \in p.keys => validate_positive_integer(p.total_sold)

\* ProductUpdateSerializer.update: set the fields the body carries and save
ProductUpdateSerializer_update(product, p) ==
    LET a == IF "category_id" \in p.keys
             THEN [product EXCEPT !.category = p.category_id] ELSE product
        b == IF "sizes" \in p.keys THEN [a EXCEPT !.sizes = p.sizes] ELSE a
        c == IF "price" \in p.keys THEN [b EXCEPT !.price = p.price] ELSE b
        d == IF "total_qty" \in p.keys THEN [c EXCEPT !.total_qty = p.total_qty] ELSE c
    IN IF "total_sold" \in p.keys THEN [d EXCEPT !.total_sold = p.total_sold] ELSE d

\* the update bodies over given fields and values; a field that is absent
\* carries a fixed filler
ProductUpdatePayloads(fields, cats, sizes, prices, qtys) ==
    {p \in [keys : SUBSET fields, category_id : cats \cup {1},
            sizes : sizes \cup {<<>>}, price : prices \cup {1},
            total_qty : qtys \cup {0}, total_sold : qtys \cup {0}] :
        /\ IF "category_id" \in p.keys THEN p.category_id \in cats ELSE p.category_id = 1
        /\ IF "sizes" \in p.keys THEN p.sizes \in sizes ELSE p.sizes = <<>>
        /\ IF "price" \in p.keys THEN p.price \in prices ELSE p.price = 1
        /\ IF "total_qty" \in p.keys THEN p.total_qty \in qtys ELSE p.total_qty = 0
        /\ IF "total_sold" \in p.keys THEN p.total_sold \in qtys ELSE p.total_sold = 0}

----------------------------------------------------------------------------
(* products/models.py: ProductImage *)

\* ProductImage.save without the demotion of the other primary images
ProductImage_save_no_demotion(table, id, image) == PutRow(table, id, image)

\* ProductImage.save of image row `image` under id `id`: when the row is
\* primary, every other primary image of its product is demoted first
ProductImage_save(table, id, image) ==
    LET demoted ==
          IF image.is_primary
          THEN [i \in DOMAIN table |->
                  IF table[i].product = image.product /\ table[i].is_primary /\ i # id
                  THEN [table[i] EXCEPT !.is_primary = FALSE]
                  ELSE table[i]]
          ELSE table
    IN PutRow(demoted, id, image)

\* ProductImage.save when the upload of the file fails: the demotion has
\* run, the field's pre_save raises and the row is not written
ProductImage_save_failed(table, id, image) ==
    IF image.is_primary
    THEN [i \in DOMAIN table |->
            IF table[i].product = image.product /\ table[i].is_primary /\ i # id
            THEN [table[i] EXCEPT !.is_primary = FALSE]
            ELSE table[i]]
    ELSE table

\* the images of a product that are primary
PrimaryImages(table, pid) ==
    {i \in DOMAIN table : table[i].product = pid /\ table[i].is_primary}

----------------------------------------------------------------------------
(* products/views.py: categories and products *)

\* POST categories/
CategoryListCreateView_post(u, name) ==
    /\ UNCHANGED <<userVars, now, inflight, orderVars, products, next_product_id,
                   imageVars, reviewVars, wishlistVars>>
    /\ IF ~IsAdminOrReadOnly_has_permission(u, "POST")
       THEN /\ response' = Respond("category_create", Denied(u))
            /\ UNCHANGED <<categories, next_category_id>>
       ELSE IF CategoryNameTaken(name, {})
       THEN /\ response' = Respond("category_create", 400)
            /\ UNCHANGED <<categories, next_category_id>>
       ELSE /\ categories' = PutRow(categories, next_category_id, [name |-> name])
            /\ next_category_id' = next_category_id + 1
            /\ response' = Respond("category_create", 201)

\* PUT/PATCH categories/<id>/
CategoryDetailView_update(u, id, name) ==
    /\ UNCHANGED <<userVars, now, inflight, orderVars, next_category_id, products,
                   next_product_id, imageVars, reviewVars, wishlistVars>>
    /\ IF ~IsAdminOrReadOnly_has_permission(u, "PATCH")
       THEN /\ response' = Respond("category_update", Denied(u))
            /\ UNCHANGED categories
       ELSE IF id \notin DOMAIN categories
       THEN /\ response' = Respond("category_update", 404)
            /\ UNCHANGED categories
       ELSE IF CategoryNameTaken(name, {id})
       THEN /\ response' = Respond("category_update", 400)
            /\ UNCHANGED categories
       ELSE /\ categories' = PutRow(categories, id, [name |-> name])
            /\ response' = Respond("category_update", 200)

\* DELETE categories/<id>/: the category goes, and with it its products and
\* their images, reviews and wishlist entries
CategoryDetailView_delete(u, id) ==
    /\ UNCHANGED <<userVars, now, inflight, orderVars, next_category_id, next_product_id,
                   next_image_id, next_review_id, next_wishlist_id>>
    /\ IF ~IsAdminOrReadOnly_has_permission(u, "DELETE")
       THEN /\ response' = Respond("category_delete", Denied(u))
            /\ UNCHANGED <<categories, products, images, reviews, wishlists>>
       ELSE IF id \notin DOMAIN categories
       THEN /\ response' = Respond("category_delete", 404)
            /\ UNCHANGED <<categories, products, images, reviews, wishlists>>
       ELSE LET gone == {i \in DOMAIN products : products[i].category = id}
            IN /\ categories' = DeleteRow(categories, id)
               /\ products' = [i \in DOMAIN products \ gone |-> products[i]]
               /\ images' = RowsOutsideProducts(images, gone)
               /\ reviews' = RowsOutsideProducts(reviews, gone)
               /\ wishlists' = RowsOutsideProducts(wishlists, gone)
               /\ response' = Respond("category_delete", 204)

\* the image rows ProductCreateSerializer.create adds for the uploaded
\* files, the first one primary; files[i] tells whether file i uploads
RECURSIVE CreateImages(_, _, _, _, _)
CreateImages(table, nextid, pid, files, i) ==
    IF i > Len(files) THEN table
    ELSE CreateImages(
            ProductImage_save(table, nextid, [product |-> pid, is_primary |-> (i = 1)]),
            nextid + 1, pid, files, i + 1)

AllUploaded(files) == \A i \in DOMAIN files : files[i]

\* POST products/
ProductListCreateView_post(u, body) ==
    /\ UNCHANGED <<userVars, now, inflight, orderVars, categories, next_category_id,
                   reviewVars, wishlistVars>>
    /\ IF ~IsAdminUser_has_permission(u)
       THEN /\ response' = Respond("product_create", Denied(u))
            /\ UNCHANGED <<products, next_product_id, imageVars>>
       ELSE IF ~ProductCreateSerializer_is_valid(body)
       THEN /\ response' = Respond("product_create", 400)
            /\ UNCHANGED <<products, next_product_id, imageVars>>
       ELSE IF ~AllUploaded(body.files)
       THEN \* the exception leaves create()'s atomic block: rolled back
            /\ response' = Respond("product_create", 500)
            /\ UNCHANGED <<products, next_product_id, imageVars>>
       ELSE /\ products' = PutRow(products, next_product_id, NewProduct(u, body))
            /\ next_product_id' = next_product_id + 1
            /\ images' = CreateImages(images, next_image_id, next_product_id, body.files, 1)
            /\ next_image_id' = next_image_id + Len(body.files)
            /\ response' = Respond("product_create", 201)

\* PUT/PATCH productsp/<id>/
ProductDetailView_update(u, id, p) ==
    /\ UNCHANGED <<userVars, now, inflight, orderVars, categories, next_category_id,
                   next_product_id, imageVars, reviewVars, wishlistVars>>
    /\ IF ~IsOwnerOrAdmin_has_permission(u)
       THEN /\ response' = Respond("product_update", Denied(u))
            /\ UNCHANGED products
       ELSE IF id \notin DOMAIN products
       THEN /\ response' = Respond("product_update", 404)
            /\ UNCHANGED products
       ELSE IF ~IsOwnerOrAdmin_has_object_permission(u, products[id])
       THEN /\ response' = Respond("product_update", 403)
            /\ UNCHANGED products
       ELSE IF ~ProductUpdateSerializer_is_valid(p)
       THEN /\ response' = Respond("product_update", 400)
            /\ UNCHANGED products
       ELSE /\ products' = PutRow(products, id, ProductUpdateSerializer_update(products[id], p))
            /\ response' = Respond("product_update", 200)

\* a delete that takes the orders naming the product with it
ProductDetailView_delete_with_orders(u, id) ==
    /\ UNCHANGED <<userVars, now, inflight, next_order_id, categories,
                   next_category_id, next_product_id, next_image_id,
                   next_review_id, next_wishlist_id>>
    /\ IF ~IsOwnerOrAdmin_has_permission(u) \/ id \notin DOMAIN products
       THEN /\ response' = Respond("product_delete", 404)
            /\ UNCHANGED <<orders, products, images, reviews, wishlists>>
       ELSE /\ products' = DeleteRow(products, id)
            /\ orders' = [i \in {j \in DOMAIN orders :
                                   \A k \in DOMAIN orders[j].order_items :
                                      orders[j].order_items[k].product # id}
                            |-> orders[i]]
            /\ images' = RowsOutsideProducts(images, {id})
            /\ reviews' = RowsOutsideProducts(reviews, {id})
            /\ wishlists' = RowsOutsideProducts(wishlists, {id})
            /\ response' = Respond("product_delete", 204)

\* DELETE productsp/<id>/
ProductDetailView_delete(u, id) ==
    /\ UNCHANGED <<userVars, now, inflight, orderVars, categories, next_category_id,
                   next_product_id, next_image_id, next_review_id, next_wishlist_id>>
    /\ IF ~IsOwnerOrAdmin_has_permission(u)
       THEN /\ response' = Respond("product_delete", Denied(u))
            /\ UNCHANGED <<products, images, reviews, wishlists>>
       ELSE IF id \notin DOMAIN products
       THEN /\ response' = Respond("product_delete", 404)
            /\ UNCHANGED <<products, images, reviews, wishlists>>
       ELSE IF ~IsOwnerOrAdmin_has_object_permission(u, products[id])
       THEN /\ response' = Respond("product_delete", 403)
            /\ UNCHANGED <<products, images, reviews, wishlists>>
       ELSE /\ products' = DeleteRow(products, id)
            /\ images' = RowsOutsideProducts(images, {id})
            /\ reviews' = RowsOutsideProducts(reviews, {id})
            /\ wishlists' = RowsOutsideProducts(wishlists, {id})
            /\ response' = Respond("product_delete", 204)

----------------------------------------------------------------------------
(* products/views.py, products/admin.py: product images *)

\* the loop of ProductImageUploadView.post over the uploaded files: file i
\* is saved as a new row, primary when the request asks for it and i is the
\* first; a file whose upload fails raises inside save, after the demotion,
\* and the loop goes on
RECURSIVE UploadImages(_, _, _, _, _, _)
UploadImages(table, nextid, pid, files, is_primary, i) ==
    IF i > Len(files) THEN table
    ELSE LET image == [product |-> pid, is_primary |-> (is_primary /\ i = 1)]
         IN IF files[i]
            THEN UploadImages(ProductImage_save(table, nextid, image),
                              nextid + 1, pid, files, is_primary, i + 1)
            ELSE UploadImages(ProductImage_save_failed(table, nextid, image),
                              nextid, pid, files, is_primary, i + 1)

\* created_images, counted
CreatedImages(files) == Cardinality({i \in DOMAIN files : files[i]})

\* POST <product_id>/images/
ProductImageUploadView_post(u, pid, files, is_primary) ==
    /\ UNCHANGED <<userVars, now, inflight, orderVars, catalogVars, reviewVars, wishlistVars>>
    /\ IF ~IsOwnerOrAdmin_has_permission(u)
       THEN /\ response' = Respond("image_upload", Denied(u))
            /\ UNCHANGED imageVars
       ELSE IF pid \notin DOMAIN products
       THEN /\ response' = Respond("image_upload", 404)
            /\ UNCHANGED imageVars
       ELSE IF ~(is_admin[u] \/ products[pid].user = u)
       THEN /\ response' = Respond("image_upload", 403)
            /\ UNCHANGED imageVars
       ELSE IF files = <<>>
       THEN /\ response' = Respond("image_upload", 400)
            /\ UNCHANGED imageVars
       ELSE /\ images' = UploadImages(images, next_image_id, pid, files, is_primary, 1)
            /\ next_image_id' = next_image_id + CreatedImages(files)
            /\ response' = Respond("image_upload",
                                   IF CreatedImages(files) > 0 THEN 201 ELSE 400)

\* the admin site's change form of a ProductImage, saved by a staff member
\* with the is_primary box set to is_primary
ProductImageAdmin_save(id, is_primary) ==
    /\ id \in DOMAIN images
    /\ images' = ProductImage_save(images, id, [images[id] EXCEPT !.is_primary = is_primary])
    /\ response' = Respond("admin_image_save", 302)
    /\ UNCHANGED <<userVars, now, inflight, orderVars, catalogVars, next_image_id,
                   reviewVars, wishlistVars>>

----------------------------------------------------------------------------
(* reviews/models.py, reviews/serializers.py, reviews/views.py *)

AlreadyReviewed == "You have already reviewed this product"

\* Review.objects.filter(product=product, user=request.user).exists()
\* answering that there is none
Review_exists_never(u, pid) == FALSE

\* Review.objects.filter(product=product, user=request.user).exists()
Review_exists(u, pid) ==
    \E i \in DOMAIN reviews : reviews[i].user = u /\ reviews[i].product = pid

\* unique_together = ['product', 'user']: the insert raises IntegrityError
\* when another row holds the pair
Review_unique_together(u, pid) ==
    ~\E i \in DOMAIN reviews : reviews[i].user = u /\ reviews[i].product = pid

\* the validators of Review.rating: 1 to 5
validate_rating(rating) == rating >= 1 /\ rating <= 5

\* POST <product_id>/reviews/
ProductReviewView_post(u, pid, rating) ==
    /\ UNCHANGED <<userVars, now, inflight, orderVars, catalogVars, imageVars, wishlistVars>>
    /\ IF ~is_authenticated(u)
       THEN /\ response' = Respond("review_create", Denied(u))
            /\ UNCHANGED reviewVars
       ELSE IF pid \notin DOMAIN products
       THEN /\ response' = Respond("review_create", 404)
            /\ UNCHANGED reviewVars
       ELSE IF Review_exists(u, pid)
       THEN /\ response' = RespondError("review_create", 400, AlreadyReviewed)
            /\ UNCHANGED reviewVars
       ELSE IF ~validate_rating(rating)
       THEN /\ response' = Respond("review_create", 400)
            /\ UNCHANGED reviewVars
       ELSE IF ~Review_unique_together(u, pid)
       THEN \* IntegrityError, not caught by the view
            /\ response' = Respond("review_create", 500)
            /\ UNCHANGED reviewVars
       ELSE /\ reviews' = PutRow(reviews, next_review_id,
                                 [user |-> u, product |-> pid, rating |-> rating])
            /\ next_review_id' = next_review_id + 1
            /\ response' = Respond("review_create", 201)

\* POST product/<product_id>/reviews/ ; the body carries a rating.  The
\* answer to a stored review reads request.userAuthId, which no code of the
\* repository sets: has_userAuthId tells whether the request has it, and
\* without it the AttributeError is answered by the generic handler after
\* the row is in.
add_product_review_function(u, pid, rating, has_userAuthId) ==
    /\ UNCHANGED <<userVars, now, inflight, orderVars, catalogVars, imageVars, wishlistVars>>
    /\ IF ~is_logged_in(u)
       THEN /\ response' = Respond("add_review", 401)
            /\ UNCHANGED reviewVars
       ELSE IF pid \notin DOMAIN products
       THEN /\ response' = Respond("add_review", 404)
            /\ UNCHANGED reviewVars
       ELSE IF Review_exists(u, pid)
       THEN /\ response' = RespondError("add_review", 400, AlreadyReviewed)
            /\ UNCHANGED reviewVars
       ELSE IF rating < 1 \/ rating > 5
       THEN /\ response' = Respond("add_review", 400)
            /\ UNCHANGED reviewVars
       ELSE IF ~Review_unique_together(u, pid)
       THEN \* IntegrityError, answered by the generic handler
            /\ response' = Respond("add_review", 500)
            /\ UNCHANGED reviewVars
       ELSE /\ reviews' = PutRow(reviews, next_review_id,
                                 [user |-> u, product |-> pid, rating |-> rating])
            /\ next_review_id' = next_review_id + 1
            /\ response' = Respond("add_review", IF has_userAuthId THEN 201 ELSE 500)

----------------------------------------------------------------------------
(* products/models.py, products/serializers.py, products/views.py: wishlists *)

AlreadyInWishlist == "Product already in wishlist"

\* Wishlist.objects.filter(user=request.user, product_id=product_id).exists()
\* answering that there is none
Wishlist_exists_never(u, pid) == FALSE

\* Wishlist.objects.filter(user=request.user, product_id=product_id).exists()
Wishlist_exists(u, pid) ==
    \E i \in DOMAIN wishlists : wishlists[i].user = u /\ wishlists[i].product = pid

\* unique_together = ['user', 'product']
Wishlist_unique_together(u, pid) ==
    ~\E i \in DOMAIN wishlists : wishlists[i].user = u /\ wishlists[i].product = pid

\* every wishlist entry, whoever asks
WishlistsOf_everyone(u) == DOMAIN wishlists

\* get_queryset of WishlistView and WishlistDetailView
WishlistsOf(u) == {i \in DOMAIN wishlists : wishlists[i].user = u}

\* POST wishlist/ ; product_id is an IntegerField, so a product that does
\* not exist gets as far as the insert, where the foreign key refuses it
WishlistView_post(u, pid) ==
    /\ UNCHANGED <<userVars, now, inflight, orderVars, catalogVars, imageVars, reviewVars>>
    /\ IF ~is_authenticated(u)
       THEN /\ response' = Respond("wishlist_add", Denied(u))
            /\ UNCHANGED wishlistVars
       ELSE IF Wishlist_exists(u, pid)
       THEN /\ response' = RespondError("wishlist_add", 400, AlreadyInWishlist)
            /\ UNCHANGED wishlistVars
       ELSE IF pid \notin DOMAIN products \/ ~Wishlist_unique_together(u, pid)
       THEN \* IntegrityError, not caught by the view
            /\ response' = Respond("wishlist_add", 500)
            /\ UNCHANGED wishlistVars
       ELSE /\ wishlists' = PutRow(wishlists, next_wishlist_id, [user |-> u, product |-> pid])
            /\ next_wishlist_id' = next_wishlist_id + 1
            /\ response' = Respond("wishlist_add", 201)

\* DELETE wishlist/<id>/
WishlistDetailView_delete(u, id) ==
    /\ UNCHANGED <<userVars, now, inflight, orderVars, catalogVars, imageVars,
                   reviewVars, next_wishlist_id>>
    /\ IF ~is_authenticated(u)
       THEN /\ response' = Respond("wishlist_remove", Denied(u))
            /\ UNCHANGED wishlists
       ELSE IF id \notin WishlistsOf(u)
       THEN /\ response' = Respond("wishlist_remove", 404)
            /\ UNCHANGED wishlists
       ELSE /\ wishlists' = DeleteRow(wishlists, id)
            /\ response' = Respond("wishlist_remove", 204)

----------------------------------------------------------------------------
(* users/models.py, users/serializers.py, users/views.py *)

\* ShippingAddress.save of the row of user u: the row is written, then the
\* user's flag is raised if it is down.  The result is the flag table.
ShippingAddress_save(flags, u) ==
    IF ~flags[u] THEN [flags EXCEPT ![u] = TRUE] ELSE flags

\* the writable fields of UserSerializer that the model follows (email and
\* fullname are writable too and always present and well formed here)
UserSerializerFields == {"is_admin", "has_shipping_address"}

\* the bodies of a request handled with UserSerializer: the fields present
\* (keys) and their values; a field that is absent carries FALSE
UserPayloads ==
    {p \in [keys : SUBSET UserSerializerFields, is_admin : BOOLEAN,
            has_shipping_address : BOOLEAN] :
        /\ "is_admin" \notin p.keys => p.is_admin = FALSE
        /\ "has_shipping_address" \notin p.keys => p.has_shipping_address = FALSE}

\* GET profile/
UserProfileView_get(u) ==
    /\ response' = Respond("profile_get",
                           IF IsOwnerOrAdmin_has_permission(u) THEN 200 ELSE Denied(u))
    /\ UNCHANGED <<userVars, now, inflight, orderVars, catalogVars, imageVars, reviewVars,
                   wishlistVars>>

\* PATCH profile/ : UserUpdateSerializer writes fullname and email only
UserProfileView_patch(u) ==
    /\ response' = Respond("profile_patch",
                           IF IsOwnerOrAdmin_has_permission(u) THEN 200 ELSE Denied(u))
    /\ UNCHANGED <<userVars, now, inflight, orderVars, catalogVars, imageVars, reviewVars,
                   wishlistVars>>

\* PUT profile/ : not overridden by the view, so UpdateModelMixin runs it
\* with serializer_class = UserSerializer on request.user
UserProfileView_put(u, p) ==
    /\ UNCHANGED <<shipping_addresses, now, inflight, orderVars, catalogVars, imageVars,
                   reviewVars, wishlistVars>>
    /\ IF ~IsOwnerOrAdmin_has_permission(u)
       THEN /\ response' = Respond("profile_put", Denied(u))
            /\ UNCHANGED <<is_admin, has_shipping_address>>
       ELSE /\ is_admin' = IF "is_admin" \in p.keys
                           THEN [is_admin EXCEPT ![u] = p.is_admin] ELSE is_admin
            /\ has_shipping_address' =
                  IF "has_shipping_address" \in p.keys
                  THEN [has_shipping_address EXCEPT ![u] = p.has_shipping_address]
                  ELSE has_shipping_address
            /\ response' = Respond("profile_put", 200)

\* ShippingAddressView.get_object: get_or_create, whose create saves the row
get_or_create_ShippingAddress(u) ==
    /\ shipping_addresses' = shipping_addresses \cup {u}
    /\ has_shipping_address' =
          IF u \in shipping_addresses THEN has_shipping_address
          ELSE ShippingAddress_save(has_shipping_address, u)

\* GET shipping-address/
ShippingAddressView_get(u) ==
    /\ UNCHANGED <<is_admin, now, inflight, orderVars, catalogVars, imageVars, reviewVars,
                   wishlistVars>>
    /\ IF ~IsOwnerOrAdmin_has_permission(u)
       THEN /\ response' = Respond("shipping_get", Denied(u))
            /\ UNCHANGED <<has_shipping_address, shipping_addresses>>
       ELSE /\ get_or_create_ShippingAddress(u)
            /\ response' = Respond("shipping_get", 200)

\* POST/PATCH shipping-address/ : update_or_create_address; valid tells
\* whether the body passes ShippingAddressSerializer
ShippingAddressView_update(u, valid) ==
    /\ UNCHANGED <<is_admin, now, inflight, orderVars, catalogVars, imageVars, reviewVars,
                   wishlistVars>>
    /\ IF ~IsOwnerOrAdmin_has_permission(u)
       THEN /\ response' = Respond("shipping_update", Denied(u))
            /\ UNCHANGED <<has_shipping_address, shipping_addresses>>
       ELSE IF ~valid
       THEN /\ get_or_create_ShippingAddress(u)
            /\ response' = Respond("shipping_update", 400)
       ELSE /\ shipping_addresses' = shipping_addresses \cup {u}
            /\ has_shipping_address' = ShippingAddress_save(has_shipping_address, u)
            /\ response' = Respond("shipping_update", 200)

\* PATCH admin/users/<id>/ : is_admin is read from request.data and set by
\* hand; UserUpdateSerializer then writes fullname and email
AdminUserDetailView_patch(u, target, p) ==
    /\ UNCHANGED <<has_shipping_address, shipping_addresses, now, inflight, orderVars,
                   catalogVars, imageVars, reviewVars, wishlistVars>>
    /\ IF ~IsAdminUser_has_permission(u)
       THEN /\ response' = Respond("admin_user_patch", Denied(u))
            /\ UNCHANGED is_admin
       ELSE IF target \notin Users
       THEN /\ response' = Respond("admin_user_patch", 404)
            /\ UNCHANGED is_admin
       ELSE /\ is_admin' = IF "is_admin" \in p.keys
                           THEN [is_admin EXCEPT ![target] = p.is_admin] ELSE is_admin
            /\ response' = Respond("admin_user_patch", 200)

\* PUT admin/users/<id>/ : not overridden, so UserSerializer handles it
AdminUserDetailView_put(u, target, p) ==
    /\ UNCHANGED <<shipping_addresses, now, inflight, orderVars, catalogVars, imageVars,
                   reviewVars, wishlistVars>>
    /\ IF ~IsAdminUser_has_permission(u)
       THEN /\ response' = Respond("admin_user_put", Denied(u))
            /\ UNCHANGED <<is_admin, has_shipping_address>>
       ELSE IF target \notin Users
       THEN /\ response' = Respond("admin_user_put", 404)
            /\ UNCHANGED <<is_admin, has_shipping_address>>
       ELSE /\ is_admin' = IF "is_admin" \in p.keys
                           THEN [is_admin EXCEPT ![target] = p.is_admin] ELSE is_admin
            /\ has_shipping_address' =
                  IF "has_shipping_address" \in p.keys
                  THEN [has_shipping_address EXCEPT ![target] = p.has_shipping_address]
                  ELSE has_shipping_address
            /\ response' = Respond("admin_user_put", 200)

----------------------------------------------------------------------------
(* The read handlers of the catalog: they answer and write nothing *)

AllowAny_has_permission(u) == TRUE

Read(op, status) ==
    /\ response' = Respond(op, status)
    /\ UNCHANGED <<userVars, now, inflight, orderVars, catalogVars, imageVars, reviewVars,
                   wishlistVars>>

\* GET categories/
CategoryListCreateView_get(u) ==
    Read("category_list",
         IF IsAdminOrReadOnly_has_permission(u, "GET") THEN 200 ELSE Denied(u))

\* GET categories/<id>/
CategoryDetailView_get(u, id) ==
    Read("category_detail",
         IF ~IsAdminOrReadOnly_has_permission(u, "GET") THEN Denied(u)
         ELSE IF id \notin DOMAIN categories THEN 404 ELSE 200)

\* GET products/
ProductListCreateView_get(u) ==
    Read("product_list", IF AllowAny_has_permission(u) THEN 200 ELSE Denied(u))

\* GET products/<id>/
ProductDetailView_get(u, id) ==
    Read("product_detail",
         IF ~AllowAny_has_permission(u) THEN Denied(u)
         ELSE IF id \notin DOMAIN products THEN 404 ELSE 200)

\* GET products/<product_id>/reviews/ : the reviews filtered by product_id,
\* an empty list for a product that does not exist
ProductReviewView_get(u, pid) ==
    Read("review_list", IF AllowAny_has_permission(u) THEN 200 ELSE Denied(u))

----------------------------------------------------------------------------
(* products/models.py and products/views.py: low stock *)

\* Product.is_low_stock: a property, so threshold is always its default
is_low_stock(product) == 0 < qty_left(product) /\ qty_left(product) <= 5

\* AdminLowStockView.get_queryset: total_qty__lte = F('total_sold') + threshold
AdminLowStockView_get_queryset(threshold) ==
    {i \in DOMAIN products : products[i].total_qty <= products[i].total_sold + threshold}

\* a response that carries the rows of a list and the parameter of the query
RespondRows(op, status, param, rows) ==
    [op |-> op, status |-> status, at |-> now, error |-> "", param |-> param,
     rows |-> rows]

\* GET admin/low-stock/?threshold= ; params is <<>> when the query string
\* leaves threshold out, and <<t>> when it carries t
AdminLowStockView_get(u, params) ==
    /\ UNCHANGED <<userVars, now, inflight, orderVars, catalogVars, imageVars, reviewVars,
                   wishlistVars>>
    /\ IF ~IsAdminUser_has_permission(u)
       THEN response' = Respond("low_stock", Denied(u))
       ELSE LET threshold == IF params = <<>> THEN 5 ELSE params[1]
            IN response' = RespondRows("low_stock", 200, threshold,
                                       AdminLowStockView_get_queryset(threshold))

----------------------------------------------------------------------------
(* orders/views.py: the lists and the statistics *)

\* Order.objects unfiltered
user_orders_of_everyone(u) == DOMAIN orders

\* user_order_stats: Order.objects.filter(user=request.user)
user_orders(u) == {i \in DOMAIN orders : orders[i].user = u}

\* sum(order.total_price for order in ids); float() of the sum is exact to
\* the cent for the amounts ten-digit prices add up to
RECURSIVE SumTotalPrice(_)
SumTotalPrice(ids) ==
    IF ids = {} THEN 0
    ELSE LET i == CHOOSE j \in ids : TRUE
         IN orders[i].total_price + SumTotalPrice(ids \ {i})

\* GET orders/stats/
user_order_stats(u) ==
    /\ UNCHANGED <<userVars, now, inflight, orderVars, catalogVars, imageVars, reviewVars,
                   wishlistVars>>
    /\ IF ~is_logged_in(u)
       THEN response' = Respond("order_stats", 401)
       ELSE response' =
               RespondRows("order_stats", 200, u,
                  [total_orders |-> Cardinality(user_orders(u)),
                   pending_orders |->
                      Cardinality({i \in user_orders(u) : orders[i].status = "pending"}),
                   completed_orders |->
                      Cardinality({i \in user_orders(u) : orders[i].status = "delivered"}),
                   total_spent |-> SumTotalPrice(user_orders(u))])

\* GET orders/
OrderListCreateView_get(u) ==
    /\ UNCHANGED <<userVars, now, inflight, orderVars, catalogVars, imageVars, reviewVars,
                   wishlistVars>>
    /\ IF ~IsOwnerOrAdmin_has_permission(u)
       THEN response' = Respond("order_list", Denied(u))
       ELSE response' = RespondRows("order_list", 200, u, OrdersOf(u))

\* GET admin/orders/
AdminOrderListView_get(u) ==
    /\ UNCHANGED <<userVars, now, inflight, orderVars, catalogVars, imageVars, reviewVars,
                   wishlistVars>>
    /\ IF ~IsAdminUser_has_permission(u)
       THEN response' = Respond("admin_order_list", Denied(u))
       ELSE response' = RespondRows("admin_order_list", 200, u, DOMAIN orders)

----------------------------------------------------------------------------
(* products/models.py: ProductImage.save, statement by statement, as two   *)
(* workers run it side by side.  Neither statement of one worker waits for *)
(* the other worker's insert: the UPDATE of a worker sees the rows that    *)
(* are there when it runs.                                                 *)

\* ProductImage.objects.filter(product, is_primary=True).update(is_primary=False)
DemoteOthers(table, pid) ==
    [i \in DOMAIN table |->
        IF table[i].product = pid /\ table[i].is_primary
        THEN [table[i] EXCEPT !.is_primary = FALSE] ELSE table[i]]

\* the first statement of the save of a new primary image of product pid
ProductImage_save_demote(w, pid) ==
    /\ inflight[w] = Idle
    /\ pid \in DOMAIN products
    /\ images' = DemoteOthers(images, pid)
    /\ inflight' = [inflight EXCEPT
                      ![w] = [pc |-> "demoted", product |-> pid, before |-> images,
                              after |-> DemoteOthers(images, pid)]]
    /\ response' = Respond("image_save_begin", NULL)
    /\ UNCHANGED <<userVars, now, orderVars, catalogVars, next_image_id, reviewVars,
                   wishlistVars>>

\* the second statement, super().save(): the insert of the row; it fails on
\* the foreign key when the product has gone meanwhile
ProductImage_save_insert(w) ==
    /\ inflight[w].pc = "demoted"
    /\ inflight' = [inflight EXCEPT ![w] = Idle]
    /\ IF inflight[w].product \in DOMAIN products
       THEN /\ images' = PutRow(images, next_image_id,
                                [product |-> inflight[w].product, is_primary |-> TRUE])
            /\ next_image_id' = next_image_id + 1
            /\ response' = Respond("image_save", 201)
       ELSE /\ UNCHANGED imageVars
            /\ response' = Respond("image_save", 500)
    /\ UNCHANGED <<userVars, now, orderVars, catalogVars, reviewVars, wishlistVars>>

\* the save ends between the two statements: the upload of the file raises
\* and the caller goes on (the demotion stays), or the worker dies and its
\* transaction is rolled back (possible here while no one else has written)
ProductImage_save_interrupted(w, rolled_back) ==
    /\ inflight[w].pc = "demoted"
    /\ inflight' = [inflight EXCEPT ![w] = Idle]
    /\ IF rolled_back
       THEN images = inflight[w].after /\ images' = inflight[w].before
       ELSE UNCHANGED images
    /\ response' = Respond("image_save", 400)
    /\ UNCHANGED <<userVars, now, orderVars, catalogVars, next_image_id, reviewVars,
                   wishlistVars>>

----------------------------------------------------------------------------
(* reviews/views.py and products/views.py: the creation of a review and of *)
(* a wishlist entry in two steps, the tests first and the insert second,   *)
(* as two workers run them side by side                                    *)

\* ProductReviewView.post up to serializer.is_valid()
ProductReviewView_post_check(w, u, pid, rating) ==
    /\ inflight[w] = Idle
    /\ UNCHANGED <<userVars, now, orderVars, catalogVars, imageVars, reviewVars,
                   wishlistVars>>
    /\ IF ~is_authenticated(u)
       THEN response' = Respond("review_create", Denied(u)) /\ UNCHANGED inflight
       ELSE IF pid \notin DOMAIN products
       THEN response' = Respond("review_create", 404) /\ UNCHANGED inflight
       ELSE IF Review_exists(u, pid)
       THEN /\ response' = RespondError("review_create", 400, AlreadyReviewed)
            /\ UNCHANGED inflight
       ELSE IF ~validate_rating(rating)
       THEN response' = Respond("review_create", 400) /\ UNCHANGED inflight
       ELSE /\ response' = Respond("review_checked", NULL)
            /\ inflight' = [inflight EXCEPT
                              ![w] = [pc |-> "review", user |-> u, product |-> pid,
                                      rating |-> rating]]

\* ProductReviewView.post from serializer.save(product=product) on: the
\* IntegrityError of the insert is not caught
ProductReviewView_post_save(w) ==
    /\ inflight[w].pc = "review"
    /\ inflight' = [inflight EXCEPT ![w] = Idle]
    /\ UNCHANGED <<userVars, now, orderVars, catalogVars, imageVars, wishlistVars>>
    /\ IF \/ inflight[w].product \notin DOMAIN products
          \/ ~Review_unique_together(inflight[w].user, inflight[w].product)
       THEN /\ response' = Respond("review_create", 500)
            /\ UNCHANGED reviewVars
       ELSE /\ reviews' = PutRow(reviews, next_review_id,
                                 [user |-> inflight[w].user,
                                  product |-> inflight[w].product,
                                  rating |-> inflight[w].rating])
            /\ next_review_id' = next_review_id + 1
            /\ response' = Respond("review_create", 201)

\* WishlistView.post up to the test for an existing entry
WishlistView_post_check(w, u, pid) ==
    /\ inflight[w] = Idle
    /\ UNCHANGED <<userVars, now, orderVars, catalogVars, imageVars, reviewVars,
                   wishlistVars>>
    /\ IF ~is_authenticated(u)
       THEN response' = Respond("wishlist_add", Denied(u)) /\ UNCHANGED inflight
       ELSE IF Wishlist_exists(u, pid)
       THEN /\ response' = RespondError("wishlist_add", 400, AlreadyInWishlist)
            /\ UNCHANGED inflight
       ELSE /\ response' = Respond("wishlist_checked", NULL)
            /\ inflight' = [inflight EXCEPT
                              ![w] = [pc |-> "wishlist", user |-> u, product |-> pid]]

\* WishlistView.post from serializer.save() on
WishlistView_post_save(w) ==
    /\ inflight[w].pc = "wishlist"
    /\ inflight' = [inflight EXCEPT ![w] = Idle]
    /\ UNCHANGED <<userVars, now, orderVars, catalogVars, imageVars, reviewVars>>
    /\ IF \/ inflight[w].product \notin DOMAIN products
          \/ ~Wishlist_unique_together(inflight[w].user, inflight[w].product)
       THEN /\ response' = Respond("wishlist_add", 500)
            /\ UNCHANGED wishlistVars
       ELSE /\ wishlists' = PutRow(wishlists, next_wishlist_id,
                                   [user |-> inflight[w].user,
                                    product |-> inflight[w].product])
            /\ next_wishlist_id' = next_wishlist_id + 1
            /\ response' = Respond("wishlist_add", 201)

----------------------------------------------------------------------------
(* products/views.py: ProductDetailView.patch in two steps, as two workers *)
(* run it side by side                                                     *)

\* patch up to serializer.is_valid(): get_object reads the row into the
\* instance the serializer will write
ProductDetailView_patch_read(w, u, id, p) ==
    /\ inflight[w] = Idle
    /\ UNCHANGED <<userVars, now, orderVars, catalogVars, imageVars, reviewVars,
                   wishlistVars>>
    /\ IF ~IsOwnerOrAdmin_has_permission(u)
       THEN response' = Respond("product_update", Denied(u)) /\ UNCHANGED inflight
       ELSE IF id \notin DOMAIN products
       THEN response' = Respond("product_update", 404) /\ UNCHANGED inflight
       ELSE IF ~IsOwnerOrAdmin_has_object_permission(u, products[id])
       THEN response' = Respond("product_update", 403) /\ UNCHANGED inflight
       ELSE IF ~ProductUpdateSerializer_is_valid(p)
       THEN response' = Respond("product_update", 400) /\ UNCHANGED inflight
       ELSE /\ response' = Respond("product_read", NULL)
            /\ inflight' = [inflight EXCEPT
                              ![w] = [pc |-> "product", id |-> id,
                                      instance |-> products[id], data |-> p]]

\* serializer.save(): the fields of the body are set on the instance and
\* instance.save() writes every column of it (no update_fields); a row that
\* has gone meanwhile is inserted again unless its category has gone too
ProductDetailView_patch_save(w) ==
    /\ inflight[w].pc = "product"
    /\ inflight' = [inflight EXCEPT ![w] = Idle]
    /\ UNCHANGED <<userVars, now, orderVars, categories, next_category_id,
                   next_product_id, imageVars, reviewVars, wishlistVars>>
    /\ LET written == ProductUpdateSerializer_update(inflight[w].instance,
                                                     inflight[w].data)
       IN IF written.category \notin DOMAIN categories
          THEN /\ response' = Respond("product_update", 500)
               /\ UNCHANGED products
          ELSE /\ products' = PutRow(products, inflight[w].id, written)
               /\ response' = Respond("product_update", 200)

\* POST change-password/ : PasswordChangeSerializer sets the password of
\* request.user; valid tells whether the body passes it
ChangePasswordView_post(u, valid) ==
    /\ response' = Respond("change_password",
                           IF ~IsOwnerOrAdmin_has_permission(u) THEN Denied(u)
                           ELSE IF valid THEN 200 ELSE 400)
    /\ UNCHANGED <<userVars, now, inflight, orderVars, catalogVars, imageVars,
                   reviewVars, wishlistVars>>

\* GET orders/<pk>/ : get_object looks the id up in the caller's own
\* orders, then asks has_object_permission
OrderDetailView_get(u, id) ==
    Read("order_detail",
         IF ~IsOwnerOrAdmin_has_permission(u) THEN Denied(u)
         ELSE IF id \notin OrdersOf(u) THEN 404
         ELSE IF ~IsOwnerOrAdmin_has_object_permission(u, orders[id]) THEN 403
         ELSE 200)

----------------------------------------------------------------------------
(* The state after the migrations have run and the accounts exist *)

Init ==
    /\ is_admin = [u \in Users |-> u = "root"]
    /\ has_shipping_address = [u \in Users |-> FALSE]
    /\ shipping_addresses = {}
    /\ now = 1
    /\ orders = EmptyTable
    /\ next_order_id = 1
    /\ categories = EmptyTable
    /\ next_category_id = 1
    /\ products = EmptyTable
    /\ next_product_id = 1
    /\ images = EmptyTable
    /\ next_image_id = 1
    /\ reviews = EmptyTable
    /\ next_review_id = 1
    /\ wishlists = EmptyTable
    /\ next_wishlist_id = 1
    /\ response = [op |-> "none", status |-> NULL, at |-> 1, error |-> ""]
    /\ inflight = [w \in Workers |-> Idle]

----------------------------------------------------------------------------
(* The order ledger: one customer's orders from creation to delivery or    *)
(* cancellation, managed by the owner, by another user and by an admin     *)

\* the bodies of an order creation request
ItemInputs == {<<>>, <<[product |-> 1, quantity |-> 2, price |-> 10]>>}
AddressInputs == {[city |-> "Lagos"]}
PriceInputs == {0, 20}

\* the order numbers drawn while one order's life is followed
LifecycleNumbers == {n \in generate_order_number : n \in {"A1B2C3D10000", "Z9Y8X7W99999"}}

\* the update bodies that carry at most a status
StatusPayloads == {p \in OrderUpdatePayloads : p.keys \subseteq {"status"}}

OrdersNext ==
    \/ /\ next_order_id <= MaxOrders
       /\ \E items \in ItemInputs, address \in AddressInputs, price \in PriceInputs,
             number \in LifecycleNumbers :
             OrderListCreateView_post("alice", items, address, price, number)
    \/ \E u \in Users, id \in 1..MaxOrders, p \in StatusPayloads :
          OrderDetailView_update(u, id, p)
    \/ \E u \in Users, id \in 1..MaxOrders : OrderDetailView_delete(u, id)
    \/ \E u \in Users, id \in 1..MaxOrders, p \in StatusPayloads :
          AdminOrderUpdateView_update(u, id, p)
    \/ \E u \in Users, id \in 1..MaxOrders : cancel_order(u, id)
    \/ Tick

SpecOrders == Init /\ [][OrdersNext]_vars

----------------------------------------------------------------------------
(* The fields of an order: update bodies that carry status and             *)
(* delivered_at in every combination, the dates coming from the bodies     *)
(* while the clock stands still                                            *)

FieldPayloads == {p \in OrderUpdatePayloads : "payment_status" \notin p.keys}

OrderFieldsNext ==
    \/ /\ next_order_id <= MaxOrders
       /\ \E items \in ItemInputs, address \in AddressInputs, price \in PriceInputs,
             number \in LifecycleNumbers :
             OrderListCreateView_post("alice", items, address, price, number)
    \/ \E u \in {"alice", "root"}, id \in 1..MaxOrders, p \in FieldPayloads :
          OrderDetailView_update(u, id, p)
    \/ \E u \in {"alice", "root"}, id \in 1..MaxOrders, p \in FieldPayloads :
          AdminOrderUpdateView_update(u, id, p)
    \/ \E u \in {"alice", "root"}, id \in 1..MaxOrders : cancel_order(u, id)

SpecOrderFields == Init /\ [][OrderFieldsNext]_vars

----------------------------------------------------------------------------
(* The order ledger: order numbers drawn for the orders of several users   *)

LedgerNext ==
    \/ /\ next_order_id <= MaxLedger
       /\ \E u \in Principals, items \in ItemInputs, address \in AddressInputs,
             price \in PriceInputs, number \in generate_order_number :
             OrderListCreateView_post(u, items, address, price, number)
    \/ \E u \in Principals, id \in 1..MaxLedger : OrderDetailView_delete(u, id)
    \/ \E u \in Principals, id \in 1..MaxLedger : cancel_order(u, id)

SpecLedger == Init /\ [][LedgerNext]_vars

----------------------------------------------------------------------------
(* The catalog: categories and products created, edited and deleted *)

CategoryNameInputs == {"shoes", "shirts"}

\* product creation bodies without files
ProductBodies ==
    [category_id : 1..MaxCategories, sizes : {<<"S", "M">>}, price : {0, 1500},
     total_qty : -1..MaxQty, files : {<<>>}]

\* product update bodies that carry stock figures
StockPayloads ==
    ProductUpdatePayloads({"total_qty", "total_sold"}, {}, {}, {}, 0..MaxQty)

CatalogNext ==
    \/ /\ next_category_id <= MaxCategories
       /\ \E u \in Users, name \in CategoryNameInputs :
             CategoryListCreateView_post(u, name)
    \/ \E u \in Users, id \in 1..MaxCategories, name \in CategoryNameInputs :
          CategoryDetailView_update(u, id, name)
    \/ \E u \in Users, id \in 1..MaxCategories : CategoryDetailView_delete(u, id)
    \/ /\ next_product_id <= MaxProducts
       /\ \E u \in Users, body \in ProductBodies : ProductListCreateView_post(u, body)
    \/ \E u \in Users, id \in 1..MaxProducts, p \in StockPayloads :
          ProductDetailView_update(u, id, p)
    \/ \E u \in Users, id \in 1..MaxProducts : ProductDetailView_delete(u, id)

SpecCatalog == Init /\ [][CatalogNext]_vars

----------------------------------------------------------------------------
(* The shelf: an admin stocks a category with products, and the requests   *)
(* below are made about those products                                     *)

\* sequences of at most n booleans: the files of a multipart request, each
\* telling whether its upload succeeds
RECURSIVE FileListsUpTo(_)
FileListsUpTo(n) ==
    IF n = 0 THEN {<<>>}
    ELSE LET shorter == FileListsUpTo(n - 1)
         IN shorter \cup {Append(f, b) : f \in shorter, b \in BOOLEAN}

FileLists == FileListsUpTo(MaxFiles)

\* product creation bodies that pass validation, with and without files
ShelfBodies(files) ==
    [category_id : 1..MaxCategories, sizes : {<<"M">>}, price : {1500},
     total_qty : {MaxQty}, files : files]

\* the new rows of a request carrying these files fit the image table
ImagesFit(files) == next_image_id + Len(files) <= MaxImages + 1

ImagesNext ==
    \/ /\ next_category_id <= MaxCategories
       /\ CategoryListCreateView_post("root", "shoes")
    \/ /\ next_product_id <= MaxShelf
       /\ \E body \in ShelfBodies(FileLists) :
             ImagesFit(body.files) /\ ProductListCreateView_post("root", body)
    \/ \E u \in {"alice", "root"}, pid \in 1..MaxShelf, files \in FileLists,
          is_primary \in BOOLEAN :
          ImagesFit(files) /\ ProductImageUploadView_post(u, pid, files, is_primary)
    \/ \E id \in 1..MaxImages, is_primary \in BOOLEAN :
          ProductImageAdmin_save(id, is_primary)
    \/ \E pid \in 1..MaxShelf : ProductDetailView_delete("root", pid)

SpecImages == Init /\ [][ImagesNext]_vars

Reviewers == {"alice", "bob", Anonymous}
RatingInputs == {0, 4}

ReviewsNext ==
    \/ /\ next_category_id <= MaxCategories
       /\ CategoryListCreateView_post("root", "shoes")
    \/ /\ next_product_id <= MaxShelf
       /\ \E body \in ShelfBodies({<<>>}) : ProductListCreateView_post("root", body)
    \/ /\ next_review_id <= MaxReviews
       /\ \E u \in Reviewers, pid \in 1..MaxShelf, rating \in RatingInputs :
             ProductReviewView_post(u, pid, rating)
    \/ /\ next_review_id <= MaxReviews
       /\ \E u \in Reviewers, pid \in 1..MaxShelf, rating \in RatingInputs,
             has_userAuthId \in BOOLEAN :
             add_product_review_function(u, pid, rating, has_userAuthId)
    \/ \E pid \in 1..MaxShelf : ProductDetailView_delete("root", pid)

SpecReviews == Init /\ [][ReviewsNext]_vars

WishlistNext ==
    \/ /\ next_category_id <= MaxCategories
       /\ CategoryListCreateView_post("root", "shoes")
    \/ /\ next_product_id <= MaxShelf
       /\ \E body \in ShelfBodies({<<>>}) : ProductListCreateView_post("root", body)
    \/ /\ next_wishlist_id <= MaxWishlists
       /\ \E u \in Reviewers, pid \in 1..MaxShelf : WishlistView_post(u, pid)
    \/ \E u \in Reviewers, id \in 1..MaxWishlists : WishlistDetailView_delete(u, id)
    \/ \E pid \in 1..MaxShelf : ProductDetailView_delete("root", pid)

SpecWishlist == Init /\ [][WishlistNext]_vars

----------------------------------------------------------------------------
(* The stewards of the catalog: admins come and go while categories and    *)
(* products are edited and deleted                                         *)

\* the bodies of PATCH admin/users/<id>/ that name is_admin
AdminFlagPayloads == {p \in UserPayloads : p.keys = {"is_admin"}}

\* product update bodies that carry a price
PricePayloads == ProductUpdatePayloads({"price"}, {}, {}, {1500, 2000}, {})

StewardsNext ==
    \/ /\ next_category_id <= MaxCategories
       /\ \E u \in Users : CategoryListCreateView_post(u, "shoes")
    \/ /\ next_product_id <= MaxProducts
       /\ \E u \in Users, body \in ShelfBodies({<<>>}) :
             ProductListCreateView_post(u, body)
    \/ \E u \in Users, target \in Users, p \in AdminFlagPayloads :
          AdminUserDetailView_patch(u, target, p)
    \/ \E u \in Users, id \in 1..MaxCategories, name \in CategoryNameInputs :
          CategoryDetailView_update(u, id, name)
    \/ \E u \in Users, id \in 1..MaxCategories : CategoryDetailView_delete(u, id)
    \/ \E u \in Users, id \in 1..MaxProducts, p \in PricePayloads :
          ProductDetailView_update(u, id, p)
    \/ \E u \in Users, id \in 1..MaxProducts : ProductDetailView_delete(u, id)

SpecStewards == Init /\ [][StewardsNext]_vars

----------------------------------------------------------------------------
(* Claims about the order ledger *)

\* the successful steps of the two order update handlers
OrderUpdated(u, id, p) ==
    /\ OrderDetailView_update(u, id, p) \/ AdminOrderUpdateView_update(u, id, p)
    /\ response'.status = 200

\* C2: cancel_order on an order owned by the requester answers 200 and sets
\* status to 'cancelled' (every other field as it was) exactly when the
\* order is pending; for every other status it answers 400 and leaves the
\* order table as it was.
C2_CancelOnlyPending ==
    [][response'.op = "cancel_order" =>
         \A u \in Users, id \in DOMAIN orders :
            (orders[id].user = u /\ cancel_order(u, id)) =>
               IF orders[id].status = "pending"
               THEN /\ response'.status = 200
                    /\ orders' = [orders EXCEPT ![id].status = "cancelled"]
               ELSE /\ response'.status = 400
                    /\ orders' = orders]_vars

\* C2 witness: a cancel was refused on an order that is already shipped
C2_Witness ==
    /\ response.op = "cancel_order" /\ response.status = 400
    /\ \E id \in DOMAIN orders : orders[id].status = "shipped"

\* C3: where no request body carries delivered_at, an update that leaves an
\* order delivered whose delivered_at was unset stamps it with the current
\* time, and a later update made while the order is still delivered keeps
\* the stamp.
C3_DeliveredStampedOnce ==
    [][(response'.op \in {"order_update", "admin_order_update"}
          /\ response'.status = 200) =>
         \A id \in DOMAIN orders :
            /\ (orders'[id].status = "delivered" /\ orders[id].delivered_at = NULL)
               => orders'[id].delivered_at = now
            /\ (/\ orders[id].status = "delivered"
                /\ orders[id].delivered_at # NULL
                /\ orders'[id].status = "delivered")
               => orders'[id].delivered_at = orders[id].delivered_at]_vars

\* C3 witness: an update answered at time 2 left a delivered order with the
\* stamp of time 1
C3_Witness ==
    /\ response.op \in {"order_update", "admin_order_update"}
    /\ response.status = 200 /\ response.at = 2
    /\ \E id \in DOMAIN orders :
          orders[id].status = "delivered" /\ orders[id].delivered_at = 1

\* C4 as stated: once delivered_at is set, no update or cancel changes or
\* clears it.
C4_DeliveredAtNeverOverwritten ==
    [][\A id \in DOMAIN orders \cap DOMAIN orders' :
         orders[id].delivered_at # NULL =>
            orders'[id].delivered_at = orders[id].delivered_at]_vars

\* C4 amended: once delivered_at is set, a cancel and every update whose
\* body carries no delivered_at field leave it as it was.
C4_DeliveredAtKeptUnlessSupplied ==
    [][\A id \in DOMAIN orders \cap DOMAIN orders' :
         (/\ orders[id].delivered_at # NULL
          /\ orders'[id].delivered_at # orders[id].delivered_at)
         => /\ response'.op # "cancel_order"
            /\ \A u \in {"alice", "root"}, p \in FieldPayloads :
                  "delivered_at" \notin p.keys => ~OrderUpdated(u, id, p)]_vars

\* C4 witness: a cancel succeeded on an order whose delivered_at was set,
\* and the value is still there
C4_Witness ==
    /\ response.op = "cancel_order" /\ response.status = 200
    /\ \E id \in DOMAIN orders :
          orders[id].status = "cancelled" /\ orders[id].delivered_at # NULL

ForwardSteps ==
    {<<"pending", "processing">>, <<"processing", "shipped">>,
     <<"shipped", "delivered">>, <<"pending", "cancelled">>}

\* C5 as stated: every change of an order's status is one of the steps
\* pending->processing, processing->shipped, shipped->delivered,
\* pending->cancelled.
C5_StatusMovesForward ==
    [][\A id \in DOMAIN orders \cap DOMAIN orders' :
         orders'[id].status # orders[id].status =>
            <<orders[id].status, orders'[id].status>> \in ForwardSteps]_vars

\* C5 amended: an update sets status to any of pending, processing, shipped,
\* delivered from any status; the only change into 'cancelled' is the one
\* cancel makes, from pending.
C5_StatusChanges ==
    [][\A id \in DOMAIN orders \cap DOMAIN orders' :
         orders'[id].status # orders[id].status =>
            \/ /\ response'.op \in {"order_update", "admin_order_update"}
               /\ orders'[id].status \in STATUS_CHOICES
            \/ /\ response'.op = "cancel_order"
               /\ orders[id].status = "pending"
               /\ orders'[id].status = "cancelled"]_vars

\* C5 witness: an order that was delivered (its stamp is set, and no body
\* carries delivered_at here) is pending again
C5_Witness ==
    \E id \in DOMAIN orders :
       orders[id].status = "pending" /\ orders[id].delivered_at # NULL

\* a creation request that passes authentication and validation
ValidOrderCreate(u, items, price) ==
    /\ IsOwnerOrAdmin_has_permission(u)
    /\ validate_order_items(items) /\ validate_total_price(price)

OrderNumbersUnique(table) ==
    \A i, j \in DOMAIN table :
       table[i].order_number = table[j].order_number => i = j

----------------------------------------------------------------------------
(* Claims about the catalog *)

\* C1 as stated: every stored Product has qty_left = total_qty - total_sold
\* and qty_left >= 0, that is total_sold <= total_qty.
C1_StockNeverNegative ==
    \A id \in DOMAIN products :
       /\ qty_left(products[id]) = products[id].total_qty - products[id].total_sold
       /\ qty_left(products[id]) >= 0

\* the Category row a creation request adds
CategoryCreated(name) ==
    /\ categories' = PutRow(categories, next_category_id, [name |-> name])
    /\ next_category_id \notin DOMAIN categories

\* the Product row a creation request adds
ProductCreated(u, body) ==
    /\ products' = PutRow(products, next_product_id, NewProduct(u, body))
    /\ next_product_id \notin DOMAIN products

\* C10: a request to create a Category or a Product made by an authenticated
\* user who is not an admin is answered 403 and leaves both tables as they
\* were; made by an admin it is not refused for lack of permission, and when
\* its body is valid (the category name is free; the product's category
\* exists and its sizes, price and stock are well formed) it is answered 201
\* and the row is stored.
C10_OnlyAdminsCreate ==
    [][response'.op \in {"category_create", "product_create"} =>
         /\ \A u \in Users, name \in CategoryNameInputs :
               CategoryListCreateView_post(u, name) =>
                  IF ~is_admin[u]
                  THEN response'.status = 403 /\ UNCHANGED <<categories, products>>
                  ELSE /\ response'.status \notin {401, 403}
                       /\ ~(\E i \in DOMAIN categories : categories[i].name = name)
                          => response'.status = 201 /\ CategoryCreated(name)
         /\ \A u \in Users, body \in ProductBodies :
               ProductListCreateView_post(u, body) =>
                  IF ~is_admin[u]
                  THEN response'.status = 403 /\ UNCHANGED <<categories, products>>
                  ELSE /\ response'.status \notin {401, 403}
                       /\ (/\ body.category_id \in DOMAIN categories
                           /\ body.price >= 1 /\ body.total_qty >= 0)
                          => response'.status = 201 /\ ProductCreated(u, body)]_vars

\* C10 witness: an admin has created a category, and a product creation
\* request has just been answered 403 with no product stored
C10_Witness ==
    /\ categories # EmptyTable
    /\ products = EmptyTable
    /\ response.op = "product_create" /\ response.status = 403

----------------------------------------------------------------------------
(* Claims about reviews, wishlists and product images *)

HasReviewed(u, pid) ==
    \E i \in DOMAIN reviews : reviews[i].user = u /\ reviews[i].product = pid

AtMostOneReviewPerPair ==
    \A i, j \in DOMAIN reviews :
       (reviews[i].user = reviews[j].user /\ reviews[i].product = reviews[j].product)
       => i = j

\* C7: a review submitted through either endpoint by a user who already has
\* a review for the product is answered 400 and leaves the review table as
\* it was; and no two stored reviews ever share their (user, product) pair.
C7_DuplicateReviewRejected ==
    /\ []AtMostOneReviewPerPair
    /\ [][response'.op \in {"review_create", "add_review"} =>
            \A u \in Users, pid \in DOMAIN products, rating \in RatingInputs :
               (/\ HasReviewed(u, pid)
                /\ \/ ProductReviewView_post(u, pid, rating)
                   \/ \E has_userAuthId \in BOOLEAN :
                         add_product_review_function(u, pid, rating, has_userAuthId))
               => response'.status = 400 /\ reviews' = reviews]_vars

\* C7 witness: the function endpoint has just refused a second review, by a
\* user whose review is stored
C7_Witness ==
    /\ response.op = "add_review" /\ response.error = AlreadyReviewed
    /\ \E i \in DOMAIN reviews : reviews[i].user = "alice"

HasWishlisted(u, pid) ==
    \E i \in DOMAIN wishlists : wishlists[i].user = u /\ wishlists[i].product = pid

AtMostOneWishPerPair ==
    \A i, j \in DOMAIN wishlists :
       (wishlists[i].user = wishlists[j].user
          /\ wishlists[i].product = wishlists[j].product)
       => i = j

\* C8: adding a product to the wishlist of a user who already has it there
\* is answered 400 and leaves the wishlist table as it was; and after any
\* adds and removes no two entries share their (user, product) pair.
C8_DuplicateWishRejected ==
    /\ []AtMostOneWishPerPair
    /\ [][response'.op = "wishlist_add" =>
            \A u \in Users, pid \in 1..MaxShelf :
               (HasWishlisted(u, pid) /\ WishlistView_post(u, pid))
               => response'.status = 400 /\ wishlists' = wishlists]_vars

\* C8 witness: an entry was added, removed and added again, and a further
\* add of the same product has just been refused
C8_Witness ==
    /\ response.op = "wishlist_add" /\ response.error = AlreadyInWishlist
    /\ next_wishlist_id = 3
    /\ Cardinality(DOMAIN wishlists) = 1

AtMostOnePrimary ==
    \A pid \in DOMAIN products : Cardinality(PrimaryImages(images, pid)) <= 1

\* C9: no product ever has two primary images; and after a product is
\* created with images, after an upload that asks for a primary image and
\* whose first file is stored, and after an admin saves an image as primary,
\* the product's only primary image is the one just saved as primary.
C9_SinglePrimaryImage ==
    /\ []AtMostOnePrimary
    /\ [][/\ (response'.op = "product_create" /\ response'.status = 201
                /\ next_image_id' > next_image_id)
             => PrimaryImages(images', next_product_id) = {next_image_id}
          /\ (response'.op = "image_upload" /\ response'.status = 201) =>
                \A files \in {f \in FileLists : f # <<>> /\ f[1]} :
                   \A u \in Users, pid \in DOMAIN products :
                      ProductImageUploadView_post(u, pid, files, TRUE)
                      => PrimaryImages(images', pid) = {next_image_id}
          /\ response'.op = "admin_image_save" =>
                \A id \in DOMAIN images :
                   ProductImageAdmin_save(id, TRUE)
                   => PrimaryImages(images', images[id].product) = {id}]_vars

\* C9 witness: an upload has just stored a primary image for a product that
\* has an older image, no longer primary, while another product keeps its
\* own primary image
C9_Witness ==
    /\ response.op = "image_upload" /\ response.status = 201
    /\ \E i, j \in DOMAIN images :
          /\ i < j /\ j = next_image_id - 1
          /\ images[i].product = images[j].product
          /\ ~images[i].is_primary /\ images[j].is_primary
          /\ \E k \in DOMAIN images :
                images[k].product # images[j].product /\ images[k].is_primary

----------------------------------------------------------------------------
(* Claims about who may edit the catalog *)

CatalogMutationOps ==
    {"category_update", "category_delete", "product_update", "product_delete"}

----------------------------------------------------------------------------
(* The readers of the catalog: visitors with and without an account read   *)
(* categories, products and reviews while an admin fills the catalog       *)

ReadersNext ==
    \/ /\ next_category_id <= MaxCategories
       /\ \E name \in CategoryNameInputs : CategoryListCreateView_post("root", name)
    \/ /\ next_product_id <= MaxProducts
       /\ \E body \in ShelfBodies({<<>>}) : ProductListCreateView_post("root", body)
    \/ /\ next_review_id <= MaxReviews
       /\ \E u \in Reviewers, pid \in 1..MaxProducts, rating \in RatingInputs :
             ProductReviewView_post(u, pid, rating)
    \/ \E u \in Principals : CategoryListCreateView_get(u)
    \/ \E u \in Principals, id \in 1..MaxCategories : CategoryDetailView_get(u, id)
    \/ \E u \in Principals : ProductListCreateView_get(u)
    \/ \E u \in Principals, id \in 1..MaxProducts : ProductDetailView_get(u, id)
    \/ \E u \in Principals, pid \in 1..MaxProducts : ProductReviewView_get(u, pid)

SpecReaders == Init /\ [][ReadersNext]_vars

CatalogReadOps ==
    {"category_list", "category_detail", "product_list", "product_detail",
     "review_list"}

\* C12: a principal without an account is never refused a read of the
\* catalog for lack of authentication: no GET of the category list, of a
\* category, of the product list, of a product or of a product's reviews
\* issued by the anonymous principal is answered 401 or 403.
C12_AnonymousReadsAllowed ==
    [][(response'.op \in CatalogReadOps /\ response'.status \in {401, 403})
         => /\ ~CategoryListCreateView_get(Anonymous)
            /\ ~ProductListCreateView_get(Anonymous)
            /\ \A id \in 1..MaxCategories : ~CategoryDetailView_get(Anonymous, id)
            /\ \A id \in 1..MaxProducts :
                  /\ ~ProductDetailView_get(Anonymous, id)
                  /\ ~ProductReviewView_get(Anonymous, id)]_vars

----------------------------------------------------------------------------
(* The checkout: order creation requests whose bodies leave fields out or  *)
(* carry empty and non-positive values                                     *)

\* the bodies of POST orders/; a field that is absent carries a fixed filler
OrderCreateBodies ==
    {b \in [keys : SUBSET OrderCreateFields, order_items : ItemInputs,
            shipping_address : AddressInputs, total_price : PriceInputs \cup {-5}] :
        /\ "order_items" \notin b.keys => b.order_items = <<>>
        /\ "total_price" \notin b.keys => b.total_price = 0}

CheckoutNext ==
    \/ /\ next_order_id <= MaxLedger
       /\ \E u \in Principals \ {"root"}, body \in OrderCreateBodies, number \in LifecycleNumbers :
             OrderListCreateView_create(u, body, number)
    \/ \E u \in Principals \ {"root"}, id \in 1..MaxLedger : OrderDetailView_delete(u, id)

SpecCheckout == Init /\ [][CheckoutNext]_vars

\* the body carries a non-empty item list and a total price above zero
ItemsAndPricePresent(body) ==
    /\ "order_items" \in body.keys /\ Len(body.order_items) >= 1
    /\ "total_price" \in body.keys /\ body.total_price > 0

\* C13: order creation succeeds only for a non-empty item list and a total
\* price above zero: a request of an authenticated user whose item list is
\* empty or missing, or whose total price is zero, negative or omitted, is
\* answered 400 and persists no order, and every persisted order has
\* total_price > 0 and at least one item.
C13_OrderNeedsItemsAndPrice ==
    /\ [](\A i \in DOMAIN orders :
             orders[i].total_price > 0 /\ Len(orders[i].order_items) >= 1)
    /\ [][response'.op = "order_create" =>
            \A u \in Users, body \in OrderCreateBodies, number \in LifecycleNumbers :
               (OrderListCreateView_create(u, body, number) /\ ~ItemsAndPricePresent(body))
                  => (response'.status = 400 /\ UNCHANGED orderVars)]_vars

----------------------------------------------------------------------------
\* the columns of an order that no update may touch
OrderFrame(order) ==
    <<order.order_items, order.total_price, order.shipping_address,
      order.order_number, order.user>>

OrderUpdateOps == {"order_update", "admin_order_update", "cancel_order"}

\* C14: every update of an existing order (PUT/PATCH by the owner, PUT/PATCH
\* by an admin, cancel) keeps the set of orders and leaves order_items,
\* total_price, shipping_address, order_number and user of every order as
\* they were; only payment_status, status and delivered_at can change.
C14_UpdatesKeepOrderFrame ==
    [][response'.op \in OrderUpdateOps =>
         /\ DOMAIN orders' = DOMAIN orders
         /\ \A i \in DOMAIN orders : OrderFrame(orders'[i]) = OrderFrame(orders[i])]_vars

C14_Witness ==
    /\ response.op = "order_update" /\ response.status = 200
    /\ \E i \in DOMAIN orders :
          /\ orders[i].status = "shipped" /\ orders[i].user = "alice"
          /\ orders[i].total_price = 20 /\ Len(orders[i].order_items) = 1

----------------------------------------------------------------------------
(* The accounts: users read and write their profile and their shipping     *)
(* address while admins edit accounts                                      *)

UsersNext ==
    \/ \E u \in Principals : ShippingAddressView_get(u)
    \/ \E u \in Principals, valid \in BOOLEAN : ShippingAddressView_update(u, valid)
    \/ \E u \in Principals : UserProfileView_get(u)
    \/ \E u \in Principals : UserProfileView_patch(u)
    \/ \E u \in Principals, p \in UserPayloads : UserProfileView_put(u, p)
    \/ \E u \in Principals, valid \in BOOLEAN : ChangePasswordView_post(u, valid)
    \/ \E u \in Principals, target \in Users, p \in UserPayloads :
          AdminUserDetailView_patch(u, target, p)
    \/ \E u \in Principals, target \in Users, p \in UserPayloads :
          AdminUserDetailView_put(u, target, p)

SpecUsers == Init /\ [][UsersNext]_vars

\* C15: has_shipping_address of a user becomes true with the step that
\* first saves a shipping address for that user, and no operation (saving
\* a shipping address, GET/PATCH/PUT of the profile, an admin's update of
\* the account) sets a flag that is true back to false.
C15_FlagRaisedAndKept ==
    [][\A u \in Users :
          /\ (u \notin shipping_addresses /\ u \in shipping_addresses')
                => has_shipping_address'[u]
          /\ has_shipping_address[u] => has_shipping_address'[u]]_vars

----------------------------------------------------------------------------
(* The stockroom: products of several stock levels are created and sold    *)
(* while the low-stock list is queried with and without a threshold        *)

StockroomBodies ==
    [category_id : 1..MaxCategories, sizes : {<<"M">>}, price : {1500},
     total_qty : {0, 1, 5, 6}, files : {<<>>}]

SoldPayloads == ProductUpdatePayloads({"total_sold"}, {}, {}, {}, {0, 1})

StockroomNext ==
    \/ /\ next_category_id <= MaxCategories
       /\ CategoryListCreateView_post("root", "shoes")
    \/ /\ next_product_id <= MaxShelf
       /\ \E body \in StockroomBodies : ProductListCreateView_post("root", body)
    \/ \E id \in 1..MaxShelf, p \in SoldPayloads : ProductDetailView_update("root", id, p)
    \/ \E u \in Users, params \in {<<>>, <<0>>, <<1>>} : AdminLowStockView_get(u, params)

SpecStockroom == Init /\ [][StockroomNext]_vars

\* C16: a product is low in stock exactly when 0 < qty_left <= threshold:
\* is_low_stock is true iff 0 < qty_left <= 5, and the low-stock list an
\* admin gets for threshold t (5 when none is given) holds exactly the
\* products with 0 < qty_left <= t, none with qty_left <= 0.
C16_LowStockExact ==
    /\ \A i \in DOMAIN products :
          is_low_stock(products[i])
             <=> (0 < qty_left(products[i]) /\ qty_left(products[i]) <= 5)
    /\ (response.op = "low_stock" /\ response.status = 200)
          => response.rows =
                {i \in DOMAIN products :
                    0 < qty_left(products[i]) /\ qty_left(products[i]) <= response.param}

----------------------------------------------------------------------------
(* The order book: two customers order, an admin moves the orders along,   *)
(* and customers, visitors and the admin ask for lists and statistics      *)

BookBodies ==
    [keys : {OrderCreateFields}, order_items : ItemInputs \ {<<>>},
     shipping_address : AddressInputs, total_price : {20, 50}]

BookNext ==
    \/ /\ next_order_id <= MaxLedger
       /\ \E u \in {"alice", "bob"}, body \in BookBodies, number \in LifecycleNumbers :
             OrderListCreateView_create(u, body, number)
    \/ \E id \in 1..MaxLedger, p \in StatusPayloads :
          AdminOrderUpdateView_update("root", id, p)
    \/ \E u \in {"alice", "bob"}, id \in 1..MaxLedger : cancel_order(u, id)
    \/ \E u \in Principals : user_order_stats(u)
    \/ \E u \in Principals : OrderListCreateView_get(u)
    \/ \E u \in Principals : AdminOrderListView_get(u)

SpecBook == Init /\ [][BookNext]_vars

\* the number of orders of user u among the first n rows that are in one
\* of the given statuses, and the sum of their prices
RECURSIVE CountOwned(_, _, _)
CountOwned(u, statuses, n) ==
    IF n = 0 THEN 0
    ELSE CountOwned(u, statuses, n - 1)
         + (IF n \in DOMAIN orders /\ orders[n].user = u /\ orders[n].status \in statuses
            THEN 1 ELSE 0)

RECURSIVE SpentOwned(_, _)
SpentOwned(u, n) ==
    IF n = 0 THEN 0
    ELSE SpentOwned(u, n - 1)
         + (IF n \in DOMAIN orders /\ orders[n].user = u THEN orders[n].total_price ELSE 0)

AnyStatus == STATUS_CHOICES \cup {"cancelled"}

\* C17: the statistics a user gets count that user's orders and no one
\* else's: total_orders is the number of the user's orders, pending_orders
\* the number of them that are pending, completed_orders the number that
\* are delivered, and total_spent the sum of their total_price.
C17_StatsOfOwnOrders ==
    (response.op = "order_stats" /\ response.status = 200) =>
       LET u == response.param
           n == next_order_id - 1
       IN /\ response.rows.total_orders = CountOwned(u, AnyStatus, n)
          /\ response.rows.pending_orders = CountOwned(u, {"pending"}, n)
          /\ response.rows.completed_orders = CountOwned(u, {"delivered"}, n)
          /\ response.rows.total_spent = SpentOwned(u, n)

C17_Witness ==
    /\ response.op = "order_stats" /\ response.status = 200
    /\ response.param = "alice"
    /\ response.rows.total_orders = 1 /\ response.rows.completed_orders = 1
    /\ response.rows.total_spent = 20
    /\ \E i \in DOMAIN orders : orders[i].user = "bob" /\ orders[i].total_price = 50

\* C18: the order list a non-admin user gets holds exactly the orders that
\* user owns, never another user's; the admin order list holds every order
\* and is refused to a principal that is not an admin.
C18_OrderListsScoped ==
    [][/\ response'.op = "order_list" =>
            \A u \in Users :
               (~is_admin[u] /\ OrderListCreateView_get(u)) =>
                  /\ response'.status = 200
                  /\ response'.rows = {i \in DOMAIN orders : orders[i].user = u}
       /\ response'.op = "admin_order_list" =>
            \A u \in Principals :
               AdminOrderListView_get(u) =>
                  IF u \in Users /\ is_admin[u]
                  THEN response'.status = 200 /\ response'.rows = DOMAIN orders
                  ELSE response'.status \in {401, 403}]_vars

C18_Witness ==
    /\ response.op = "order_list" /\ response.status = 200
    /\ response.param = "bob" /\ Cardinality(response.rows) = 1
    /\ \E i \in DOMAIN orders : orders[i].user = "alice"

----------------------------------------------------------------------------
(* The wardrobe: products are created and edited with size lists that do   *)
(* and do not keep to the known sizes                                      *)

SizeInputs == {<<"M">>, <<"S", "XL">>, <<"XS">>, <<"L", "XXXL">>}

WardrobeBodies ==
    [category_id : 1..MaxCategories, sizes : SizeInputs, price : {1500},
     total_qty : {MaxQty}, files : {<<>>}]

SizePayloads == ProductUpdatePayloads({"sizes", "price"}, {}, SizeInputs, {2000}, {})

WardrobeNext ==
    \/ /\ next_category_id <= MaxCategories
       /\ CategoryListCreateView_post("root", "shoes")
    \/ /\ next_product_id <= MaxShelf
       /\ \E u \in Users, body \in WardrobeBodies : ProductListCreateView_post(u, body)
    \/ \E u \in Users, id \in 1..MaxShelf, p \in SizePayloads :
          ProductDetailView_update(u, id, p)

SpecWardrobe == Init /\ [][WardrobeNext]_vars

\* C19: the sizes of every persisted product are among S, M, L, XL and XXL:
\* a create or update request carrying any other size is refused and the
\* stored product stays as it was.
C19_SizesFromEnumeration ==
    \A i \in DOMAIN products :
       \A k \in DOMAIN products[i].sizes :
          products[i].sizes[k] \in {"S", "M", "L", "XL", "XXL"}

----------------------------------------------------------------------------
\* C20: changing status, payment_status or delivered_at of an order is for
\* admins only: a PUT/PATCH of an order by a user who is not an admin, the
\* owner included, leaves status and payment_status of every order as they
\* were, and the only change of status such a user causes is from pending
\* to cancelled, through cancel.
C20_StatusUpdateAdminOnly ==
    [][/\ response'.op = "order_update" =>
            \A u \in Users, id \in 1..MaxOrders, p \in StatusPayloads :
               (~is_admin[u] /\ OrderDetailView_update(u, id, p)) =>
                  \A i \in DOMAIN orders :
                     /\ orders'[i].status = orders[i].status
                     /\ orders'[i].payment_status = orders[i].payment_status
       /\ response'.op = "cancel_order" =>
            \A i \in DOMAIN orders :
               orders'[i].status # orders[i].status =>
                  (orders[i].status = "pending" /\ orders'[i].status = "cancelled")]_vars

----------------------------------------------------------------------------
\* the objects a request can be about: every stored row with a user column
\* and every account
Resources ==
    {products[i] : i \in DOMAIN products} \cup {UserObject(v) : v \in Users}
       \cup {[user |-> v] : v \in Users}

\* C21: for every principal and resource IsOwnerOrAdmin decides at object
\* level: allow an admin; otherwise allow when the resource has an owning
\* user and it is the principal; otherwise allow when the resource is the
\* principal's own account; otherwise deny.
C21_OwnerOrAdminDecision ==
    \A u \in Users, obj \in Resources :
       IsOwnerOrAdmin_has_object_permission(u, obj)
          <=> \/ is_admin[u]
              \/ (~is_admin[u] /\ "user" \in DOMAIN obj /\ obj.user = u)
              \/ (~is_admin[u] /\ "user" \notin DOMAIN obj /\ obj = UserObject(u))

C21_Witness ==
    /\ response.op = "product_delete" /\ response.status = 403
    /\ \E id \in DOMAIN products : ~is_admin[products[id].user]
    /\ \E u \in Users : is_admin[u]

----------------------------------------------------------------------------
(* The studio: two workers save primary images of the same products at the *)
(* same time                                                               *)

StudioNext ==
    \/ /\ next_category_id <= MaxCategories
       /\ CategoryListCreateView_post("root", "shoes")
    \/ /\ next_product_id <= MaxShelf
       /\ \E body \in ShelfBodies({<<>>}) : ProductListCreateView_post("root", body)
    \/ \E w \in Workers, pid \in 1..MaxShelf : ProductImage_save_demote(w, pid)
    \/ /\ next_image_id <= MaxImages
       /\ \E w \in Workers : ProductImage_save_insert(w)
    \/ \E w \in Workers, rolled_back \in BOOLEAN :
          ProductImage_save_interrupted(w, rolled_back)

SpecStudio == Init /\ [][StudioNext]_vars

\* C22: when two requests save a primary image of the same product at the
\* same time, each demoting the others and then inserting, or when a save
\* ends between its demotion and its insert, no product ever has two
\* images with is_primary = true.
C22_SinglePrimaryUnderRaces ==
    \A pid \in DOMAIN products :
       \A i, j \in PrimaryImages(images, pid) : i = j

----------------------------------------------------------------------------
(* The rush: two workers serve requests of the same users for the same     *)
(* products at the same time                                               *)

RushNext ==
    \/ /\ next_category_id <= MaxCategories
       /\ CategoryListCreateView_post("root", "shoes")
    \/ /\ next_product_id <= MaxProducts
       /\ \E body \in ShelfBodies({<<>>}) : ProductListCreateView_post("root", body)
    \/ \E w \in Workers, u \in Reviewers, pid \in 1..MaxProducts, rating \in RatingInputs :
          ProductReviewView_post_check(w, u, pid, rating)
    \/ /\ next_review_id <= MaxReviews
       /\ \E w \in Workers : ProductReviewView_post_save(w)
    \/ \E w \in Workers, u \in Reviewers, pid \in 1..MaxProducts :
          WishlistView_post_check(w, u, pid)
    \/ /\ next_wishlist_id <= MaxWishlists
       /\ \E w \in Workers : WishlistView_post_save(w)

SpecRush == Init /\ [][RushNext]_vars

\* C23: when two requests create a review (or a wishlist entry) of the same
\* user and product at the same time and both pass the test for an existing
\* row, one row is stored, and the request that loses at the store's
\* uniqueness constraint is answered with a conflict error (400 or 409),
\* not with a server error.
C23_LoserGetsConflict ==
    /\ [](/\ \A i, j \in DOMAIN reviews :
                (reviews[i].user = reviews[j].user
                   /\ reviews[i].product = reviews[j].product) => i = j
          /\ \A i, j \in DOMAIN wishlists :
                (wishlists[i].user = wishlists[j].user
                   /\ wishlists[i].product = wishlists[j].product) => i = j)
    /\ [][\A w \in Workers :
            /\ (/\ ProductReviewView_post_save(w)
                /\ inflight[w].product \in DOMAIN products
                /\ ~Review_unique_together(inflight[w].user, inflight[w].product))
                  => response'.status \in {400, 409}
            /\ (/\ WishlistView_post_save(w)
                /\ inflight[w].product \in DOMAIN products
                /\ ~Wishlist_unique_together(inflight[w].user, inflight[w].product))
                  => response'.status \in {400, 409}]_vars

----------------------------------------------------------------------------
\* C24: no upload reports success after a partial write: of the images of
\* one upload request either all are stored or none is, and the request is
\* answered 201 only when every image of it was stored.
C24_UploadAllOrNothing ==
    [][response'.op = "image_upload" =>
         \A u \in {"alice", "root"}, pid \in 1..MaxShelf, files \in FileLists,
            is_primary \in BOOLEAN :
            ProductImageUploadView_post(u, pid, files, is_primary) =>
               /\ next_image_id' - next_image_id \in {0, Len(files)}
               /\ response'.status = 201 => next_image_id' - next_image_id = Len(files)]_vars

----------------------------------------------------------------------------
(* The till: two workers adjust the stock figures of the same product at   *)
(* the same time                                                           *)

TillNext ==
    \/ /\ next_category_id <= MaxCategories
       /\ CategoryListCreateView_post("root", "shoes")
    \/ /\ next_product_id <= MaxProducts
       /\ \E body \in ShelfBodies({<<>>}) : ProductListCreateView_post("root", body)
    \/ \E w \in Workers, u \in {"alice", "root"}, id \in 1..MaxProducts,
          p \in StockPayloads : ProductDetailView_patch_read(w, u, id, p)
    \/ \E w \in Workers : ProductDetailView_patch_save(w)

SpecTill == Init /\ [][TillNext]_vars

\* C25: of two adjustments of the stock of one product that run at the same
\* time neither is lost: the save of an update changes total_sold by what
\* that update adds to the value it read (nothing, when the update is about
\* other fields), whatever another update has written since, so the final
\* total_sold reflects both.
C25_NoLostStockUpdate ==
    [][\A w \in Workers :
          (ProductDetailView_patch_save(w) /\ response'.status = 200
             /\ inflight[w].id \in DOMAIN products) =>
             LET id == inflight[w].id
                 read == inflight[w].instance.total_sold
                 sent == IF "total_sold" \in inflight[w].data.keys
                         THEN inflight[w].data.total_sold ELSE read
             IN products'[id].total_sold = products[id].total_sold + (sent - read)]_vars

----------------------------------------------------------------------------
(* The archive: orders are placed for products that are later repriced,    *)
(* sold out and deleted, alone or with their category                      *)

ArchiveNext ==
    \/ /\ next_category_id <= MaxCategories
       /\ CategoryListCreateView_post("root", "shoes")
    \/ /\ next_product_id <= MaxProducts
       /\ \E body \in ShelfBodies({<<>>}) : ProductListCreateView_post("root", body)
    \/ /\ next_order_id <= MaxLedger
       /\ \E body \in BookBodies, number \in LifecycleNumbers :
             OrderListCreateView_create("alice", body, number)
    \/ \E id \in 1..MaxProducts, p \in PricePayloads \cup SoldPayloads :
          ProductDetailView_update("root", id, p)
    \/ \E u \in {"alice", "root"}, id \in 1..MaxProducts : ProductDetailView_delete(u, id)
    \/ \E id \in 1..MaxCategories : CategoryDetailView_delete("root", id)

SpecArchive == Init /\ [][ArchiveNext]_vars

\* C26: once an order exists, no operation on the catalog (the update of a
\* product's price or stock, the deletion of a product, the deletion of a
\* category with its products) changes or removes the order, its
\* order_items or its shipping_address.
C26_CatalogLeavesOrders ==
    [][response'.op \in {"product_update", "product_delete", "category_delete"}
         => /\ DOMAIN orders' = DOMAIN orders
            /\ \A i \in DOMAIN orders : orders'[i] = orders[i]]_vars

\* an order names product 1, which has just been deleted
C26_Witness ==
    /\ response.op = "product_delete" /\ response.status = 204
    /\ products = EmptyTable
    /\ \E i \in DOMAIN orders :
          \E k \in DOMAIN orders[i].order_items : orders[i].order_items[k].product = 1

----------------------------------------------------------------------------
\* C27: no request of a user who is not an admin makes that user an admin:
\* GET, PATCH and PUT of the profile, the change of the password and the
\* shipping-address operations leave is_admin false for every user for
\* whom it is false.
C27_NoSelfPromotion ==
    [][response'.op \in {"profile_get", "profile_patch", "profile_put",
                         "change_password", "shipping_get", "shipping_update"}
         => \A u \in Users : ~is_admin[u] => ~is_admin'[u]]_vars

\* C28: GET shipping-address/ reads only: it creates no ShippingAddress row
\* and leaves has_shipping_address of every user as it was, so a user who
\* never sent an address keeps has_shipping_address = false.
C28_ShippingGetReadsOnly ==
    [][response'.op = "shipping_get"
         => UNCHANGED <<shipping_addresses, has_shipping_address>>]_vars

----------------------------------------------------------------------------
(* Neighbours: alice places an order, alice and bob keep wishlists, and    *)
(* each of them addresses every order id and every wishlist entry id       *)

Neighbours == {"alice", "bob"}

\* the update body {"status": "shipped"}
ShippedPayloads == {p \in StatusPayloads : "status" \in p.keys /\ p.status = "shipped"}

NeighboursNext ==
    \/ /\ next_category_id <= MaxCategories
       /\ CategoryListCreateView_post("root", "shoes")
    \/ /\ next_product_id <= MaxProducts
       /\ \E body \in ShelfBodies({<<>>}) : ProductListCreateView_post("root", body)
    \/ /\ next_order_id <= MaxOrders
       /\ \E body \in {b \in BookBodies : b.total_price = 20} :
             OrderListCreateView_create("alice", body, "A1B2C3D10000")
    \/ \E u \in Neighbours, id \in 1..MaxOrders : OrderDetailView_get(u, id)
    \/ \E u \in Neighbours, id \in 1..MaxOrders, p \in ShippedPayloads :
          OrderDetailView_update(u, id, p)
    \/ \E u \in Neighbours, id \in 1..MaxOrders : OrderDetailView_delete(u, id)
    \/ \E u \in Neighbours, id \in 1..MaxOrders : cancel_order(u, id)
    \/ /\ next_wishlist_id <= MaxShelf
       /\ \E u \in Neighbours, pid \in 1..MaxProducts : WishlistView_post(u, pid)
    \/ \E u \in Neighbours, id \in 1..MaxShelf : WishlistDetailView_delete(u, id)

SpecNeighbours == Init /\ [][NeighboursNext]_vars

\* C29: a request of a user U who is not an admin, addressed to an order or
\* a wishlist entry owned by another user V (retrieve, update, delete and
\* cancel of V's order id, removal of V's wishlist entry id), is answered
\* 404 and leaves every order and every wishlist entry as it was.
C29_OthersRecordsUntouched ==
    [][\/ response'.op \notin {"order_detail", "order_update", "order_delete",
                               "cancel_order", "wishlist_remove"}
       \/ response'.status = 404 /\ UNCHANGED <<orders, wishlists>>
       \/ \A u \in Neighbours :
             ~is_admin[u] =>
                /\ \A id \in DOMAIN orders :
                      ~(/\ orders[id].user # u
                        /\ \/ OrderDetailView_get(u, id)
                           \/ \E p \in ShippedPayloads : OrderDetailView_update(u, id, p)
                           \/ OrderDetailView_delete(u, id)
                           \/ cancel_order(u, id))
                /\ \A id \in DOMAIN wishlists :
                      ~(wishlists[id].user # u /\ WishlistDetailView_delete(u, id))]_vars

\* bob's DELETE of alice's order is answered 404 while alice's order and a
\* wishlist entry of each of the two exist
C29_Witness ==
    /\ response.op = "order_delete" /\ response.status = 404
    /\ DOMAIN orders = 1..MaxOrders
    /\ \A id \in DOMAIN orders : orders[id].user = "alice"
    /\ \E i, j \in DOMAIN wishlists :
          wishlists[i].user = "alice" /\ wishlists[j].user = "bob"

----------------------------------------------------------------------------
\* C30: in every state reached through Order.save (creation, the owner's
\* update, the admin's update, cancel), an order whose status is 'delivered'
\* has a delivered_at that is not null.
C30_DeliveredHasDate ==
    \A id \in DOMAIN orders :
       orders[id].status = "delivered" => orders[id].delivered_at # NULL

\* C30 witness: an update has just been answered 200 and an order is
\* delivered, stamped with the time of the save
C30_Witness ==
    /\ response.op \in {"order_update", "admin_order_update"}
    /\ response.status = 200
    /\ \E id \in DOMAIN orders :
          orders[id].status = "delivered" /\ orders[id].delivered_at = response.at

====
